---- MODULE Spec2Model ----
(***************************************************************************)
(* Model of the KiloLend wallet agent (WalletAgent): symbol resolution,    *)
(* amount encoding and the guarded transaction pipeline of the mutating    *)
(* operations.                                                             *)
(*                                                                         *)
(* Strings whose letters matter (symbols, contract keys, amounts) are      *)
(* sequences of one-character strings, so that toLowerCase, trim, prefix   *)
(* tests and key concatenation are computed and not assumed.  uint256      *)
(* quantities are signed decimal digit strings (what BigInt holds), since  *)
(* 10^18 and 2^256-1 do not fit a machine integer.                         *)
(***************************************************************************)
EXTENDS Integers, Sequences, FiniteSets, TLC

VARIABLES network, config, isReadonly, last, trace, rIn, rOut, rOut2, query, reply,
          ledger, running

vars == <<network, config, isReadonly, last, trace, rIn, rOut, rOut2, query, reply,
          ledger, running>>

(***************************************************************************)
(* Bounds of the model.                                                    *)
(***************************************************************************)
\* largest number of markets in the entered-assets list returned by the chain
MaxEntered == 1
\* the chain-client calls of one invocation are numbered 1..MaxCallIndex; one of
\* them may be made to fail
MaxCallIndex == 5

\* contracts with a rejected read in one read operation
MaxFailing == 2

\* entered markets of the account whose liquidity is read
MaxPositions == 2

\* largest number of symbols in one request to enter markets
MaxRequested == 2

(***************************************************************************)
(* String primitives (JavaScript String methods).                          *)
(***************************************************************************)
UpperLetters == <<"A","B","C","D","E","F","G","H","I","J","K","L","M","N","O","P","Q","R","S","T","U","V","W","X","Y","Z">>

LowerLetters == <<"a","b","c","d","e","f","g","h","i","j","k","l","m","n","o","p","q","r","s","t","u","v","w","x","y","z">>

toLowerChar(c) ==
    IF \E i \in 1..26 : UpperLetters[i] = c
    THEN LowerLetters[CHOOSE i \in 1..26 : UpperLetters[i] = c]
    ELSE c

toUpperChar(c) ==
    IF \E i \in 1..26 : LowerLetters[i] = c
    THEN UpperLetters[CHOOSE i \in 1..26 : LowerLetters[i] = c]
    ELSE c

toLowerCase(s) == [i \in 1..Len(s) |-> toLowerChar(s[i])]

toUpperCase(s) == [i \in 1..Len(s) |-> toUpperChar(s[i])]

RECURSIVE trimStart(_)
trimStart(s) == IF s # <<>> /\ Head(s) = " " THEN trimStart(Tail(s)) ELSE s

RECURSIVE trimEnd(_)
trimEnd(s) ==
    IF s # <<>> /\ s[Len(s)] = " " THEN trimEnd(SubSeq(s, 1, Len(s) - 1)) ELSE s

trim(s) == trimEnd(trimStart(s))

startsWith(s, c) == s # <<>> /\ Head(s) = c

\* the template literal `c${symbol}`
CKey(symbol) == <<"c">> \o symbol

(***************************************************************************)
(* Static configuration: CHAIN_CONTRACTS, TOKEN_CONFIGS, networkConfigs.   *)
(***************************************************************************)
Networks == {"kaia", "kub", "etherlink"}

NativeAddress == "0xEeeeeEeeeEeEeeEeEeEeeEEEeeeeEeeeeeeeEEeE"

USDT == <<"U","S","D","T">>
SIX == <<"S","I","X">>
BORA == <<"B","O","R","A">>
MBX == <<"M","B","X">>
KAIA == <<"K","A","I","A">>
stKAIA == <<"s","t","K","A","I","A">>
StKAIA == <<"S","t","K","A","I","A">>
STKAIA == <<"S","T","K","A","I","A">>
KUSDT == <<"K","U","S","D","T">>
KUB == <<"K","U","B">>
XTZ == <<"X","T","Z">>

\* Object.entries order of CHAIN_CONTRACTS[net]
CHAIN_CONTRACTS(net) ==
    CASE net = "kaia" -> <<
           [key |-> <<"C","o","m","p","t","r","o","l","l","e","r">>, address |-> "0x2591d179a0B1dB1c804210E111035a3a13c95a48"],
           [key |-> <<"K","i","l","o","O","r","a","c","l","e">>, address |-> "0xE370336C3074E76163b2f9B07876d0Cb3425488D"],
           [key |-> <<"S","t","a","b","l","e","c","o","i","n","J","u","m","p","R","a","t","e","M","o","d","e","l">>, address |-> "0x9948DFaC28D39c2EeDB7543E24c28df2922568A6"],
           [key |-> <<"V","o","l","a","t","i","l","e","R","a","t","e","M","o","d","e","l">>, address |-> "0x836B1A7A6996cC04bA2387e691c7947679A1eF0d"],
           [key |-> <<"c","U","S","D","T">>, address |-> "0x20A2Cbc68fbee094754b2F03d15B1F5466f1F649"],
           [key |-> <<"c","S","I","X">>, address |-> "0x287770f1236AdbE3F4dA4f29D0f1a776f303C966"],
           [key |-> <<"c","B","O","R","A">>, address |-> "0xA7247a6f5EaC85354642e0E90B515E2dC027d5F4"],
           [key |-> <<"c","M","B","X">>, address |-> "0xa024B1DE3a6022FB552C2ED9a8050926Fb22d7b6"],
           [key |-> <<"c","K","A","I","A">>, address |-> "0x2029f3E3C667EBd68b1D29dbd61dc383BdbB56e5"],
           [key |-> <<"c","S","t","K","A","I","A">>, address |-> "0x8A424cCf2D2B7D85F1DFb756307411D2BBc73e07"] >>
      [] net = "kub" -> <<
           [key |-> <<"C","o","m","p","t","r","o","l","l","e","r">>, address |-> "0x42f098E6aE5e81f357D3fD6e104BAA77A195133A"],
           [key |-> <<"K","i","l","o","O","r","a","c","l","e">>, address |-> "0xE370336C3074E76163b2f9B07876d0Cb3425488D"],
           [key |-> <<"S","t","a","b","l","e","c","o","i","n","R","a","t","e","M","o","d","e","l">>, address |-> "0x7a4399356987E22156b9a0f8449E0a5a9713D5a6"],
           [key |-> <<"V","o","l","a","t","i","l","e","R","a","t","e","M","o","d","e","l">>, address |-> "0x790057160a6B183C80C0514f644eA6BCE9EDa0D4"],
           [key |-> <<"c","K","U","S","D","T">>, address |-> "0x5E9aF11F9a09174B87550B4Bfb4EdE65De933085"],
           [key |-> <<"c","K","U","B">>, address |-> "0x0cA8DaD1e517a9BB760Ba0C27051C4C3A036eA75"] >>
      [] net = "etherlink" -> <<
           [key |-> <<"C","o","m","p","t","r","o","l","l","e","r">>, address |-> "0x42f098E6aE5e81f357D3fD6e104BAA77A195133A"],
           [key |-> <<"K","i","l","o","O","r","a","c","l","e">>, address |-> "0xE370336C3074E76163b2f9B07876d0Cb3425488D"],
           [key |-> <<"S","t","a","b","l","e","c","o","i","n","R","a","t","e","M","o","d","e","l">>, address |-> "0x7a4399356987E22156b9a0f8449E0a5a9713D5a6"],
           [key |-> <<"V","o","l","a","t","i","l","e","R","a","t","e","M","o","d","e","l">>, address |-> "0x790057160a6B183C80C0514f644eA6BCE9EDa0D4"],
           [key |-> <<"c","U","S","D","T">>, address |-> "0x5E9aF11F9a09174B87550B4Bfb4EdE65De933085"],
           [key |-> <<"c","X","T","Z">>, address |-> "0x0cA8DaD1e517a9BB760Ba0C27051C4C3A036eA75"] >>

TOKEN_CONFIGS(net) ==
    CASE net = "kaia" -> <<
           [symbol |-> USDT, decimals |-> 6, address |-> "0xd077A400968890Eacc75cdc901F0356c943e4fDb"],
           [symbol |-> SIX, decimals |-> 18, address |-> "0xEf82b1C6A550e730D8283E1eDD4977cd01FAF435"],
           [symbol |-> BORA, decimals |-> 18, address |-> "0x02cbE46fB8A1F579254a9B485788f2D86Cad51aa"],
           [symbol |-> MBX, decimals |-> 18, address |-> "0xD068c52d81f4409B9502dA926aCE3301cc41f623"],
           [symbol |-> KAIA, decimals |-> 18, address |-> NativeAddress],
           [symbol |-> stKAIA, decimals |-> 18, address |-> "0x42952b873ed6f7f0a7e4992e2a9818e3a9001995"] >>
      [] net = "kub" -> <<
           [symbol |-> KUSDT, decimals |-> 6, address |-> "0x2C03058C8AFC06713be23e58D2febC8337dbfE6A"],
           [symbol |-> KUB, decimals |-> 18, address |-> NativeAddress] >>
      [] net = "etherlink" -> <<
           [symbol |-> USDT, decimals |-> 6, address |-> "0x2C03058C8AFC06713be23e58D2febC8337dbfE6A"],
           [symbol |-> XTZ, decimals |-> 18, address |-> NativeAddress] >>

\* networkConfigs[net].nativeCurrency
nativeCurrency(net) ==
    CASE net = "kaia" -> KAIA
      [] net = "kub" -> KUB
      [] net = "etherlink" -> XTZ

\* the value JavaScript yields for a missing key or an unsuccessful find
Undefined == [defined |-> FALSE]

Def(v) == [defined |-> TRUE, value |-> v]

\* Array.prototype.find: the first element satisfying the test
Find(seq, Test(_)) ==
    IF \E i \in 1..Len(seq) : Test(seq[i])
    THEN Def(seq[CHOOSE i \in 1..Len(seq) :
                    Test(seq[i]) /\ \A j \in 1..(i - 1) : ~Test(seq[j])])
    ELSE Undefined

getContractAddresses(net) == CHAIN_CONTRACTS(net)

getTokenConfigs(net) == TOKEN_CONFIGS(net)

\* contracts[key]
ContractAt(net, key) ==
    LET KeyIs(e) == e.key = key
        hit == Find(getContractAddresses(net), KeyIs)
    IN  IF hit.defined THEN Def(hit.value.address) ELSE Undefined

\* getTokenAddresses()[symbol]
TokenAddressAt(net, symbol) ==
    LET SymIs(t) == t.symbol = symbol
        hit == Find(getTokenConfigs(net), SymIs)
    IN  IF hit.defined THEN Def(hit.value.address) ELSE Undefined

\* the entries of getCTokenAddresses(): keys starting with 'c', prefix removed
getCTokenAddresses(net) ==
    LET cs == getContractAddresses(net)
        IsC(e) == startsWith(e.key, "c")
    IN  [i \in 1..Len(SelectSeq(cs, IsC)) |->
            [symbol |-> Tail(SelectSeq(cs, IsC)[i].key),
             address |-> SelectSeq(cs, IsC)[i].address]]

\* getCTokenAddresses()[symbol]
CTokenAddressAt(net, symbol) ==
    LET SymIs(e) == e.symbol = symbol
        hit == Find(getCTokenAddresses(net), SymIs)
    IN  IF hit.defined THEN Def(hit.value.address) ELSE Undefined

\* tokens.find(t => t.symbol === symbol) finds an entry
hasTokenEntry(net, symbol) ==
    LET SymIs(t) == t.symbol = symbol
    IN  Find(getTokenConfigs(net), SymIs).defined

getTokenDecimals(net, symbol) ==
    LET SymIs(t) == t.symbol = symbol
        token == Find(getTokenConfigs(net), SymIs)
    IN  IF token.defined /\ token.value.decimals # 0 THEN token.value.decimals ELSE 18

(***************************************************************************)
(* Symbol resolution.                                                      *)
(***************************************************************************)
\* specialMappings[normalizedInput]
specialMappings(normalizedInput) ==
    IF normalizedInput = <<"s","t","k","a","i","a">> THEN Def(stKAIA) ELSE Undefined

\* the loop over the contract keys: the first 'c' key whose remainder equals
\* the normalized input, letter case ignored
ResolveByCTokenKey(net, normalizedInput) ==
    LET tokenConfigs == getTokenConfigs(net)
        KeyMatches(e) == /\ startsWith(e.key, "c")
                         /\ toLowerCase(Tail(e.key)) = normalizedInput
        entry == Find(getContractAddresses(net), KeyMatches)
    IN  IF ~entry.defined THEN Undefined
        ELSE LET symbol == Tail(entry.value.key)
                 SameRoot(t) == toLowerCase(t.symbol) = toLowerCase(symbol)
                 token == Find(tokenConfigs, SameRoot)
             IN  IF token.defined THEN Def(token.value.symbol) ELSE Def(symbol)

\* mutant: an exact match returns the normalized input, not the table's symbol
resolveTokenSymbolKeepsInput(net, inputSymbol) ==
    LET tokenConfigs == getTokenConfigs(net)
        normalizedInput == trim(toLowerCase(inputSymbol))
        ExactCI(t) == toLowerCase(t.symbol) = normalizedInput
        token == Find(tokenConfigs, ExactCI)
    IN  IF token.defined THEN normalizedInput ELSE inputSymbol

resolveTokenSymbol(net, inputSymbol) ==
    LET tokenConfigs == getTokenConfigs(net)
        normalizedInput == trim(toLowerCase(inputSymbol))
        ExactCI(t) == toLowerCase(t.symbol) = normalizedInput
        token == Find(tokenConfigs, ExactCI)
        mapped == specialMappings(normalizedInput)
        IsMapped(t) == t.symbol = mapped.value \/ t.symbol = StKAIA
        mappedToken == IF mapped.defined THEN Find(tokenConfigs, IsMapped) ELSE Undefined
        byKey == ResolveByCTokenKey(net, normalizedInput)
    IN  IF token.defined THEN token.value.symbol
        ELSE IF mappedToken.defined THEN mappedToken.value.symbol
        ELSE IF byKey.defined THEN byKey.value
        ELSE inputSymbol

\* the explicit capitalisation variants tried last
Variations == <<StKAIA, stKAIA, STKAIA>>

getCanonicalSymbolForCToken(net, inputSymbol) ==
    LET resolvedSymbol == resolveTokenSymbol(net, inputSymbol)
        HasMarket(v) == ContractAt(net, CKey(v)).defined
        variation == Find(Variations, HasMarket)
    IN  IF ContractAt(net, CKey(resolvedSymbol)).defined THEN resolvedSymbol
        ELSE IF ContractAt(net, CKey(inputSymbol)).defined THEN inputSymbol
        ELSE IF variation.defined THEN variation.value
        ELSE resolvedSymbol

(***************************************************************************)
(* BigInt values and parseUnits.  A BigInt is [neg, digits]: digits is a   *)
(* decimal digit string without leading zeros.                             *)
(***************************************************************************)
DigitChars == <<"0","1","2","3","4","5","6","7","8","9">>

IsDigit(c) == \E i \in 1..10 : DigitChars[i] = c

DigitVal(c) == (CHOOSE i \in 1..10 : DigitChars[i] = c) - 1

Zeros(n) == [i \in 1..n |-> "0"]

\* the positions of ds that do not hold a zero
NonZeroAt(ds) == {i \in 1..Len(ds) : ds[i] # "0"}

StripLeadingZeros(ds) ==
    IF NonZeroAt(ds) = {} THEN <<"0">>
    ELSE SubSeq(ds, CHOOSE i \in NonZeroAt(ds) : \A j \in NonZeroAt(ds) : i <= j, Len(ds))

StripTrailingZeros(ds) ==
    IF NonZeroAt(ds) = {} THEN <<>>
    ELSE SubSeq(ds, 1, CHOOSE i \in NonZeroAt(ds) : \A j \in NonZeroAt(ds) : j <= i)

\* BigInt(text) for text made of digits only; BigInt('') is 0n
BigIntOf(negative, ds) ==
    LET d == StripLeadingZeros(ds)
    IN  [neg |-> negative /\ d # <<"0">>, digits |-> d]

\* decimal digits of n + 1
RECURSIVE IncDigits(_)
IncDigits(ds) ==
    IF ds = <<>> THEN <<"1">>
    ELSE IF ds[Len(ds)] = "9"
         THEN IncDigits(SubSeq(ds, 1, Len(ds) - 1)) \o <<"0">>
         ELSE SubSeq(ds, 1, Len(ds) - 1) \o <<DigitChars[DigitVal(ds[Len(ds)]) + 2]>>

padStart(ds, n) == IF Len(ds) >= n THEN ds ELSE Zeros(n - Len(ds)) \o ds

padEnd(ds, n) == IF Len(ds) >= n THEN ds ELSE ds \o Zeros(n - Len(ds))

\* a < b on digit strings without leading zeros
DigitsLess(a, b) ==
    IF Len(a) # Len(b) THEN Len(a) < Len(b)
    ELSE LET differ == {i \in 1..Len(a) : a[i] # b[i]}
         IN  /\ differ # {}
             /\ LET first == CHOOSE i \in differ : \A j \in differ : i <= j
                IN  DigitVal(a[first]) < DigitVal(b[first])

\* a < b on BigInt
BigLess(a, b) ==
    IF a.neg /\ ~b.neg THEN TRUE
    ELSE IF ~a.neg /\ b.neg THEN FALSE
    ELSE IF a.neg THEN DigitsLess(b.digits, a.digits)
    ELSE DigitsLess(a.digits, b.digits)

BigZero == [neg |-> FALSE, digits |-> <<"0">>]

\* 10^n
Pow10(n) == [neg |-> FALSE, digits |-> <<"1">> \o Zeros(n)]

\* the literal '115792089237316195423570985008687907853269984665640564039457584007913129639935'
MaxUint256 ==
    [neg |-> FALSE,
     digits |-> <<"1","1","5","7","9","2","0","8","9","2","3","7","3","1","6","1","9","5","4","2","3","5","7","0","9","8","5","0","0","8","6","8","7","9","0","7","8","5","3","2","6","9","9","8","4","6","6","5","6","4","0","5","6","4","0","3","9","4","5","7","5","8","4","0","0","7","9","1","3","1","2","9","6","3","9","9","3","5">>]

\* position of the first '.' in text, 0 when there is none
DotIndex(text) ==
    IF \E i \in 1..Len(text) : text[i] = "."
    THEN CHOOSE i \in 1..Len(text) : text[i] = "." /\ \A j \in 1..(i - 1) : text[j] # "."
    ELSE 0

\* /^(-?)([0-9]*)\.?([0-9]*)$/.test(value)
IsDecimalNumber(value) ==
    LET body == IF startsWith(value, "-") THEN Tail(value) ELSE value
    IN  /\ \A i \in 1..Len(body) : IsDigit(body[i]) \/ body[i] = "."
        /\ Cardinality({i \in 1..Len(body) : body[i] = "."}) <= 1

\* the fraction after rounding to `decimals` digits, and whether the rounding
\* carries into the integer part
RoundFraction(fraction, decimals) ==
    LET left == SubSeq(fraction, 1, decimals - 1)
        unit == fraction[decimals]
        right == SubSeq(fraction, decimals + 1, Len(fraction))
        rounded == DigitVal(unit) + (IF DigitVal(right[1]) >= 5 THEN 1 ELSE 0)
        f1 == IF rounded > 9
              THEN padStart(IncDigits(StripLeadingZeros(left)) \o <<"0">>, Len(left) + 1)
              ELSE left \o <<DigitChars[rounded + 1]>>
        carry == Len(f1) > decimals
        f2 == IF carry THEN Tail(f1) ELSE f1
    IN  [fraction |-> SubSeq(f2, 1, decimals), carry |-> carry]

\* viem parseUnits(value, decimals), decimals > 0: ok = FALSE when it throws
parseUnits(value, decimals) ==
    IF ~IsDecimalNumber(value) THEN [ok |-> FALSE]
    ELSE LET dot == DotIndex(value)
             integer0 == IF dot = 0 THEN value ELSE SubSeq(value, 1, dot - 1)
             fraction0 == IF dot = 0 THEN <<"0">> ELSE SubSeq(value, dot + 1, Len(value))
             negative == startsWith(integer0, "-")
             integer1 == IF negative THEN Tail(integer0) ELSE integer0
             fraction1 == StripTrailingZeros(fraction0)
             long == Len(fraction1) > decimals
             r == IF long THEN RoundFraction(fraction1, decimals)
                  ELSE [fraction |-> padEnd(fraction1, decimals), carry |-> FALSE]
             integer2 == IF r.carry THEN IncDigits(StripLeadingZeros(integer1)) ELSE integer1
         IN  [ok |-> TRUE, value |-> BigIntOf(negative, integer2 \o r.fraction)]

(***************************************************************************)
(* Chain-client calls and local throws of one invocation.  A handler is    *)
(* translated to its plan: the calls it makes, in order, given what the    *)
(* reads return (env), up to the first throw.                              *)
(***************************************************************************)
\* absent argument or transaction value
NoAmount == [neg |-> FALSE, digits |-> <<>>]

\* publicClient.readContract / publicClient.getBalance
Read(fn, address) ==
    [ev |-> "read", fn |-> fn, to |-> address, spender |-> "", markets |-> <<>>,
     amount |-> NoAmount, value |-> NoAmount, error |-> "", inTry |-> TRUE]

Throw(error, inTry) ==
    [ev |-> "throw", fn |-> "", to |-> "", spender |-> "", markets |-> <<>>,
     amount |-> NoAmount, value |-> NoAmount, error |-> error, inTry |-> inTry]

\* walletClient.writeContract / walletClient.sendTransaction: a negative uint256
\* argument or value is rejected by the encoder before anything is sent
Write(fn, address, spender, markets, amount, value) ==
    IF amount.neg \/ value.neg THEN Throw("IntegerOutOfRange", TRUE)
    ELSE [ev |-> "write", fn |-> fn, to |-> address, spender |-> spender,
          markets |-> markets, amount |-> amount, value |-> value, error |-> "",
          inTry |-> TRUE]

ValidationErrors == {"MarketNotAvailable", "TokenNotSupported", "NativeNoApproval", "InvalidParams"}

\* utils/errors handleContractError: errors of the taxonomy are kept, any
\* other error becomes the single contract error
handleContractError(error) ==
    IF error \in ValidationErrors \cup {"InsufficientBalance", "TransactionMode"}
    THEN error
    ELSE "ContractError"

\* runs a plan: the failAt-th chain-client call rejects (0: none does)
RECURSIVE Run(_, _, _, _, _)
Run(plan, i, k, failAt, acc) ==
    IF i > Len(plan) THEN [trace |-> acc, thrown |-> "none", error |-> "none"]
    ELSE LET e == plan[i]
         IN  IF e.ev = "throw"
             THEN [trace |-> acc, thrown |-> e.error,
                   error |-> IF e.inTry THEN handleContractError(e.error) ELSE e.error]
             ELSE IF k + 1 = failAt
             THEN [trace |-> Append(acc, [e EXCEPT !.error = "rejected"]),
                   thrown |-> "Rpc", error |-> handleContractError("Rpc")]
             ELSE Run(plan, i + 1, k + 1, failAt, Append(acc, e))

\* mutant: a rejected call is recorded and the handler carries on
ExecuteThrough(plan, failAt) ==
    LET calls == SelectSeq(plan, LAMBDA e : e.ev # "throw")
    IN  [trace |-> [i \in 1..Len(calls) |->
                       IF i = failAt THEN [calls[i] EXCEPT !.error = "rejected"] ELSE calls[i]],
         thrown |-> "none", error |-> "none"]

Execute(plan, failAt) == Run(plan, 1, 0, failAt, <<>>)

(***************************************************************************)
(* The agent: constructor and helpers.                                     *)
(***************************************************************************)
\* the constructor argument: nothing, a key string, or {privateKey?, mode?};
\* a key is "absent", "empty" ('' is falsy) or "valid" (a malformed key makes
\* the constructor throw: no agent exists)
ConstructorConfigs ==
    { [kind |-> "none", privateKey |-> "absent", mode |-> "absent"],
      [kind |-> "string", privateKey |-> "empty", mode |-> "absent"],
      [kind |-> "string", privateKey |-> "valid", mode |-> "absent"],
      [kind |-> "object", privateKey |-> "absent", mode |-> "absent"],
      [kind |-> "object", privateKey |-> "absent", mode |-> "transaction"],
      [kind |-> "object", privateKey |-> "valid", mode |-> "readonly"],
      [kind |-> "object", privateKey |-> "valid", mode |-> "transaction"] }

\* the isReadonly field the constructor leaves
Constructor(cfg) ==
    LET privateKey ==
            IF cfg.kind = "string" THEN cfg.privateKey
            ELSE IF cfg.kind = "object"
                 THEN (IF cfg.mode = "readonly" THEN "absent" ELSE cfg.privateKey)
                 ELSE "absent"
    IN  IF privateKey = "valid" THEN FALSE ELSE TRUE

\* mutant: the mode guard never throws
requireTransactionModeSkipped(ro) == <<>>

requireTransactionMode(ro) == IF ro THEN <<Throw("TransactionMode", FALSE)>> ELSE <<>>

\* mutant: an absent amount is encoded as zero
AmountOrMaxAbsentIsZero(amount, decimals) ==
    IF amount.given /\ amount.text # <<>> THEN parseUnits(amount.text, decimals)
    ELSE [ok |-> TRUE, value |-> BigZero]

\* amount ? parseUnits(amount, decimals) : BigInt('1157...9935')
AmountOrMax(amount, decimals) ==
    IF amount.given /\ amount.text # <<>> THEN parseUnits(amount.text, decimals)
    ELSE [ok |-> TRUE, value |-> MaxUint256]

NoAmountGiven == [given |-> FALSE, text |-> <<>>]

Given(text) == [given |-> TRUE, text |-> text]

(***************************************************************************)
(* The agent operations.  env is what the chain returns to the reads of    *)
(* the invocation: env.assetsIn (getAssetsIn), env.allowance (allowance),  *)
(* env.balance (balanceOf / getBalance).                                   *)
(***************************************************************************)
\* checkAllowance: its calls and, when it returns, the returned allowance
checkAllowance(net, tokenSymbol, spenderAddress, env) ==
    LET canonicalSymbol == resolveTokenSymbol(net, tokenSymbol)
        tokenAddress == TokenAddressAt(net, canonicalSymbol)
    IN  IF ~tokenAddress.defined
        THEN [plan |-> <<Throw("TokenNotSupported", TRUE)>>, value |-> NoAmount]
        ELSE IF canonicalSymbol = nativeCurrency(net)
        THEN [plan |-> <<>>, value |-> MaxUint256]
        ELSE [plan |-> <<[Read("allowance", tokenAddress.value) EXCEPT !.spender = spenderAddress]>>,
              value |-> env.allowance]

approveToken(net, ro, tokenSymbol, spenderAddress, amount) ==
    LET canonicalSymbol == resolveTokenSymbol(net, tokenSymbol)
        tokenAddress == TokenAddressAt(net, canonicalSymbol)
        decimals == getTokenDecimals(net, canonicalSymbol)
        amountWei == AmountOrMax(amount, decimals)
    IN  requireTransactionMode(ro) \o
        (IF ~tokenAddress.defined THEN <<Throw("TokenNotSupported", FALSE)>>
        ELSE IF canonicalSymbol = nativeCurrency(net) THEN <<Throw("NativeNoApproval", FALSE)>>
        ELSE IF ~amountWei.ok THEN <<Throw("InvalidDecimalNumber", TRUE)>>
        ELSE <<Write("approve", tokenAddress.value, spenderAddress, <<>>, amountWei.value, NoAmount)>>)

\* mutant: the membership test never finds the market
isMemberNever(assetsIn, cTokenAddress) == FALSE

\* what checkMarketMembership returns: assetsIn.includes(cTokenAddress)
isMember(assetsIn, cTokenAddress) == cTokenAddress \in assetsIn

\* checkMarketMembership: the getAssetsIn read
checkMarketMembership(net, cTokenAddress) ==
    <<Read("getAssetsIn", ContractAt(net, <<"C","o","m","p","t","r","o","l","l","e","r">>).value)>>

enterMarkets(net, ro, cTokenAddresses) ==
    requireTransactionMode(ro) \o
    (<<Write("enterMarkets", ContractAt(net, <<"C","o","m","p","t","r","o","l","l","e","r">>).value,
                 "", cTokenAddresses, NoAmount, NoAmount)>>)

\* utils/validation validateTransactionParams(...).isValid: the recipient is a
\* well-formed address and the amount a well-formed, strictly positive decimal
WellFormedRecipients == {"0x1111111111111111111111111111111111111111"}

validateTransactionParams(to, amount) ==
    /\ to \in WellFormedRecipients
    /\ amount # <<>>
    /\ \A i \in 1..Len(amount) : IsDigit(amount[i]) \/ amount[i] = "."
    /\ Cardinality({i \in 1..Len(amount) : amount[i] = "."}) <= 1
    /\ \E i \in 1..Len(amount) : IsDigit(amount[i]) /\ amount[i] # "0"

sendNativeToken(net, ro, to, amount, env) ==
    LET amountWei == parseUnits(amount, 18)
    IN  requireTransactionMode(ro) \o
        (IF ~validateTransactionParams(to, amount) THEN <<Throw("InvalidParams", FALSE)>>
        ELSE <<Read("getBalance", "")>>
             \o (IF ~amountWei.ok THEN <<Throw("InvalidDecimalNumber", TRUE)>>
                 ELSE IF BigLess(env.balance, amountWei.value)
                 THEN <<Throw("InsufficientBalance", TRUE)>>
                 ELSE <<Write("sendTransaction", to, "", <<>>, NoAmount, amountWei.value)>>))

sendERC20Token(net, ro, tokenSymbol, to, amount) ==
    LET canonicalSymbol == resolveTokenSymbol(net, tokenSymbol)
        tokenAddress == TokenAddressAt(net, canonicalSymbol)
        decimals == getTokenDecimals(net, canonicalSymbol)
        amountWei == parseUnits(amount, decimals)
    IN  requireTransactionMode(ro) \o
        (IF ~validateTransactionParams(to, amount) THEN <<Throw("InvalidParams", FALSE)>>
        ELSE IF ~tokenAddress.defined THEN <<Throw("TokenNotSupported", FALSE)>>
        ELSE IF ~amountWei.ok THEN <<Throw("InvalidDecimalNumber", TRUE)>>
        ELSE <<Write("transfer", tokenAddress.value, to, <<>>, amountWei.value, NoAmount)>>)

\* mutant: approves also when the allowance equals the amount
EnsureAllowanceOffByOne(net, ro, symbol, cTokenAddress, amountWei, env) ==
    LET currentAllowance == checkAllowance(net, symbol, cTokenAddress, env)
    IN  currentAllowance.plan
        \o (IF currentAllowance.value # NoAmount /\ ~BigLess(amountWei, currentAllowance.value)
            THEN approveToken(net, ro, symbol, cTokenAddress, NoAmountGiven)
            ELSE <<>>)

\* the allowance step shared by supply and repay: read the allowance of symbol
\* for the market and approve the maximum when it is below amountWei
EnsureAllowance(net, ro, symbol, cTokenAddress, amountWei, env) ==
    LET currentAllowance == checkAllowance(net, symbol, cTokenAddress, env)
    IN  currentAllowance.plan
        \o (IF currentAllowance.value # NoAmount /\ BigLess(currentAllowance.value, amountWei)
            THEN approveToken(net, ro, symbol, cTokenAddress, NoAmountGiven)
            ELSE <<>>)

\* mutant: the native currency is taken to be KAIA on every network
SupplyIsNativeKaiaOnly(net, canonicalSymbol) == canonicalSymbol = KAIA

\* which of the two mint shapes supplyToMarket selects
SupplyIsNative(net, canonicalSymbol) == canonicalSymbol = nativeCurrency(net)

supplyToMarket(net, ro, tokenSymbol, amount, env) ==
    LET canonicalSymbol == getCanonicalSymbolForCToken(net, tokenSymbol)
        cTokenAddress == CTokenAddressAt(net, canonicalSymbol)
        isInMarket == isMember(env.assetsIn, cTokenAddress.value)
        decimals == getTokenDecimals(net, canonicalSymbol)
        amountWei == parseUnits(amount, decimals)
    IN  requireTransactionMode(ro) \o
        (IF ~cTokenAddress.defined THEN <<Throw("MarketNotAvailable", FALSE)>>
        ELSE checkMarketMembership(net, cTokenAddress.value)
             \o (IF ~isInMarket THEN enterMarkets(net, ro, <<cTokenAddress.value>>) ELSE <<>>)
             \o (IF ~amountWei.ok THEN <<Throw("InvalidDecimalNumber", TRUE)>>
                 ELSE (IF ~SupplyIsNative(net, canonicalSymbol)
                       THEN EnsureAllowance(net, ro, canonicalSymbol, cTokenAddress.value, amountWei.value, env)
                       ELSE <<>>)
                      \o (IF SupplyIsNative(net, canonicalSymbol)
                          THEN <<Write("mint", cTokenAddress.value, "", <<>>, NoAmount, amountWei.value)>>
                          ELSE <<Write("mint", cTokenAddress.value, "", <<>>, amountWei.value, NoAmount)>>)))

\* mutant: borrow enters the market first, as supply does
borrowFromMarketAutoEnter(net, ro, tokenSymbol, amount) ==
    LET canonicalSymbol == getCanonicalSymbolForCToken(net, tokenSymbol)
        cTokenAddress == CTokenAddressAt(net, canonicalSymbol)
        decimals == getTokenDecimals(net, canonicalSymbol)
        amountWei == parseUnits(amount, decimals)
    IN  requireTransactionMode(ro) \o
        (IF ~cTokenAddress.defined THEN <<Throw("MarketNotAvailable", FALSE)>>
        ELSE checkMarketMembership(net, cTokenAddress.value)
             \o enterMarkets(net, ro, <<cTokenAddress.value>>)
             \o (IF ~amountWei.ok THEN <<Throw("InvalidDecimalNumber", TRUE)>>
                 ELSE <<Write("borrow", cTokenAddress.value, "", <<>>, amountWei.value, NoAmount)>>))

borrowFromMarket(net, ro, tokenSymbol, amount) ==
    LET canonicalSymbol == getCanonicalSymbolForCToken(net, tokenSymbol)
        cTokenAddress == CTokenAddressAt(net, canonicalSymbol)
        decimals == getTokenDecimals(net, canonicalSymbol)
        amountWei == parseUnits(amount, decimals)
    IN  requireTransactionMode(ro) \o
        (IF ~cTokenAddress.defined THEN <<Throw("MarketNotAvailable", FALSE)>>
        ELSE IF ~amountWei.ok THEN <<Throw("InvalidDecimalNumber", TRUE)>>
        ELSE <<Write("borrow", cTokenAddress.value, "", <<>>, amountWei.value, NoAmount)>>)

\* which of the two repayBorrow shapes repayBorrow selects
RepayIsNative(net, tokenSymbol) == tokenSymbol = nativeCurrency(net)

repayBorrow(net, ro, tokenSymbol, amount, env) ==
    LET canonicalSymbol == getCanonicalSymbolForCToken(net, tokenSymbol)
        cTokenAddress == CTokenAddressAt(net, canonicalSymbol)
        decimals == getTokenDecimals(net, canonicalSymbol)
        amountWei == AmountOrMax(amount, decimals)
    IN  requireTransactionMode(ro) \o
        (IF ~cTokenAddress.defined THEN <<Throw("MarketNotAvailable", FALSE)>>
        ELSE IF ~amountWei.ok THEN <<Throw("InvalidDecimalNumber", TRUE)>>
        ELSE (IF ~RepayIsNative(net, tokenSymbol)
              THEN EnsureAllowance(net, ro, tokenSymbol, cTokenAddress.value, amountWei.value, env)
              ELSE <<>>)
             \o (IF RepayIsNative(net, tokenSymbol)
                 THEN <<Write("repayBorrow", cTokenAddress.value, "", <<>>, NoAmount, amountWei.value)>>
                 ELSE <<Write("repayBorrow", cTokenAddress.value, "", <<>>, amountWei.value, NoAmount)>>))

\* mutant: the cToken amount is encoded with the decimals of the underlying
cTokenDecimalsOfUnderlying(net, canonicalSymbol) == getTokenDecimals(net, canonicalSymbol)

\* cTokens use 8 decimals
cTokenDecimals(net, canonicalSymbol) == 8

redeemTokens(net, ro, tokenSymbol, cTokenAmount, env) ==
    LET canonicalSymbol == getCanonicalSymbolForCToken(net, tokenSymbol)
        cTokenAddress == CTokenAddressAt(net, canonicalSymbol)
        cTokenAmountWei == parseUnits(cTokenAmount, cTokenDecimals(net, canonicalSymbol))
    IN  requireTransactionMode(ro) \o
        (IF ~cTokenAddress.defined THEN <<Throw("MarketNotAvailable", FALSE)>>
        ELSE <<Read("balanceOf", cTokenAddress.value)>>
             \o (IF ~cTokenAmountWei.ok THEN <<Throw("InvalidDecimalNumber", TRUE)>>
                 ELSE IF BigLess(env.balance, cTokenAmountWei.value)
                 THEN <<Throw("InsufficientBalance", TRUE)>>
                 ELSE <<Write("redeem", cTokenAddress.value, "", <<>>, cTokenAmountWei.value, NoAmount)>>))

redeemUnderlying(net, ro, tokenSymbol, underlyingAmount) ==
    LET canonicalSymbol == getCanonicalSymbolForCToken(net, tokenSymbol)
        cTokenAddress == CTokenAddressAt(net, canonicalSymbol)
        decimals == getTokenDecimals(net, canonicalSymbol)
        underlyingAmountWei == parseUnits(underlyingAmount, decimals)
    IN  requireTransactionMode(ro) \o
        (IF ~cTokenAddress.defined THEN <<Throw("MarketNotAvailable", FALSE)>>
        ELSE IF ~underlyingAmountWei.ok THEN <<Throw("InvalidDecimalNumber", TRUE)>>
        ELSE <<Write("redeemUnderlying", cTokenAddress.value, "", <<>>, underlyingAmountWei.value, NoAmount)>>)

(***************************************************************************)
(* Inputs of the invocations.                                              *)
(***************************************************************************)
\* every spelling of symbol that differs from it in letter case only
RECURSIVE CaseVariants(_)
CaseVariants(symbol) ==
    IF symbol = <<>> THEN {<<>>}
    ELSE {<<c>> \o r : c \in {toLowerChar(Head(symbol)), toUpperChar(Head(symbol))},
                       r \in CaseVariants(Tail(symbol))}

TokenSymbols(net) == {getTokenConfigs(net)[i].symbol : i \in 1..Len(getTokenConfigs(net))}

MarketSymbols(net) == {getCTokenAddresses(net)[i].symbol : i \in 1..Len(getCTokenAddresses(net))}

CTokenAddressSet(net) == {getCTokenAddresses(net)[i].address : i \in 1..Len(getCTokenAddresses(net))}

\* a symbol that names nothing on any network, and symbols of other networks
ForeignSymbols == {<<"F","O","O">>, KUB, USDT}

\* the symbols handed to the operations: every token and market symbol as
\* written; the native currency, the first token and the market symbols also
\* in lower and in upper case; one symbol padded with blanks; foreign ones
SymbolInputs(net) ==
    LET known == TokenSymbols(net) \cup MarketSymbols(net)
        recased == {nativeCurrency(net), getTokenConfigs(net)[1].symbol}
                   \cup (MarketSymbols(net) \ TokenSymbols(net))
    IN  known
        \cup {toLowerCase(x) : x \in recased}
        \cup {toUpperCase(x) : x \in recased}
        \cup {<<" ">> \o toLowerCase(getTokenConfigs(net)[1].symbol) \o <<" ">>}
        \cup ForeignSymbols

AmountTexts ==
    { <<"1">>, <<"1",".","5">>, <<"0">>, <<"-","1">>, <<"a","b","c">>, <<>> }

OptionalAmounts == {Given(t) : t \in AmountTexts} \cup {NoAmountGiven}

Allowances == {BigZero, Pow10(6), MaxUint256}

Balances == {BigZero, Pow10(8), Pow10(18)}

\* an address in lower-case hex digits: the same 20 bytes, another string
LowerHex(address) ==
    CASE address = "0x20A2Cbc68fbee094754b2F03d15B1F5466f1F649" -> "0x20a2cbc68fbee094754b2f03d15b1f5466f1f649"
      [] address = "0x5E9aF11F9a09174B87550B4Bfb4EdE65De933085" -> "0x5e9af11f9a09174b87550b4bfb4ede65de933085"
      [] OTHER -> address

\* the entered-assets lists the chain may return: no market, or up to
\* MaxEntered consecutive markets of the contract table
\* and the first market alone, its address in lower-case hex
AssetsInLists(net) ==
    LET cs == getCTokenAddresses(net)
    IN  {{}} \cup {{cs[j].address : j \in {k \in i..(i + n - 1) : k <= Len(cs)}} :
                    i \in 1..Len(cs), n \in 1..MaxEntered}
             \cup {{LowerHex(cs[1].address)}}

Recipients == WellFormedRecipients \cup {"0x123"}

DefaultEnv == [assetsIn |-> {}, allowance |-> BigZero, balance |-> BigZero]

\* the environments an invocation may meet; an agent that never reaches the
\* chain gets a single one
Envs(ro, assetsInLists, allowances, balances) ==
    IF ro THEN {DefaultEnv}
    ELSE [assetsIn : assetsInLists, allowance : allowances, balance : balances]

\* the index of the rejected call, among at most n calls
FailPoints(ro, n) ==
    IF ro THEN {0} ELSE 0..(IF n < MaxCallIndex THEN n ELSE MaxCallIndex)

(***************************************************************************)
(* State machine.  last describes the invocation in progress (its inputs,  *)
(* the error thrown and the error the caller gets), trace the chain-client *)
(* calls it made.                                                          *)
(***************************************************************************)
Idle ==
    [op |-> "idle", symbol |-> <<>>, to |-> "", spender |-> "", markets |-> <<>>,
     amount |-> NoAmountGiven, env |-> DefaultEnv, failAt |-> 0,
     thrown |-> "none", error |-> "none"]

NoConfig == [kind |-> "none", privateKey |-> "absent", mode |-> "absent"]

\* no read operation has been called, and none has returned
NoQuery == [op |-> "none"]

NoReply == [kind |-> "none"]

\* the invocations that may be in flight together
Invocations == {1, 2}

Finite(m, e, q) == [kind |-> "finite", m |-> m, e |-> e, q |-> q]

NumZero == Finite(0, 0, 1)

\* what the reads of an invocation returned; a read not made, or rejected,
\* leaves the initial value
NoAnswers ==
    [assetsIn |-> {}, allowance |-> BigZero, balance |-> BigZero,
     toolBalance |-> BigZero, members |-> [k \in 1..MaxRequested |-> {}],
     exchangeRate |-> BigZero,
     liquidity |-> [liquidity |-> NumZero, healthFactor |-> NumZero]]

NoInput ==
    [symbol |-> <<>>, symbols |-> <<>>, amount |-> NoAmountGiven, spender |-> "",
     check |-> FALSE, autoApprove |-> FALSE]

\* no call is awaited
NoEvent == [scope |-> "none", index |-> 0, call |-> Throw("none", FALSE)]

\* an invocation is idle, ready (its handler is about to run on), waiting (for
\* the chain-client call next; a rejection in a swallowing try block takes it
\* to position after) or done (with its error)
NoInvocation ==
    [op |-> "none", input |-> NoInput, env |-> NoAnswers, pc |-> 0, calls |-> <<>>,
     status |-> "idle", error |-> "none", next |-> NoEvent, after |-> 0]

\* the chain before anything is known of it
NoLedger == [entered |-> {}, base |-> BigZero, approved |-> {}, pending |-> <<>>, mined |-> 0]

Init ==
    /\ network \in Networks
    /\ config \in ConstructorConfigs
    /\ isReadonly = Constructor(config)
    /\ last = Idle
    /\ trace = <<>>
    /\ rIn = <<>>
    /\ rOut = Undefined
    /\ rOut2 = Undefined
    /\ query = NoQuery
    /\ reply = NoReply
    /\ ledger = NoLedger
    /\ running = [i \in Invocations |-> NoInvocation]

Invoke(op, symbol, to, spender, markets, amount, env, failAt, plan) ==
    /\ LET r == Execute(plan, failAt)
       IN  /\ last' = [op |-> op, symbol |-> symbol, to |-> to, spender |-> spender,
                       markets |-> markets, amount |-> amount, env |-> env,
                       failAt |-> failAt, thrown |-> r.thrown, error |-> r.error]
           /\ trace' = r.trace
    /\ UNCHANGED <<network, config, isReadonly, rIn, rOut, rOut2, query, reply, ledger, running>>

SendNativeToken ==
    /\ last.op = "idle"
    /\ \E to \in Recipients, a \in AmountTexts,
       env \in Envs(isReadonly, {{}}, {BigZero}, Balances), f \in FailPoints(isReadonly, 2) :
        Invoke("sendNativeToken", <<>>, to, "", <<>>, Given(a), env, f,
               sendNativeToken(network, isReadonly, to, a, env))

SendERC20Token ==
    /\ last.op = "idle"
    /\ \E sym \in SymbolInputs(network), to \in Recipients, a \in AmountTexts,
       f \in FailPoints(isReadonly, 1) :
        Invoke("sendERC20Token", sym, to, "", <<>>, Given(a), DefaultEnv, f,
               sendERC20Token(network, isReadonly, sym, to, a))

ApproveToken ==
    /\ last.op = "idle"
    /\ \E sym \in SymbolInputs(network), sp \in CTokenAddressSet(network),
       a \in OptionalAmounts, f \in FailPoints(isReadonly, 1) :
        Invoke("approveToken", sym, "", sp, <<>>, a, DefaultEnv, f,
               approveToken(network, isReadonly, sym, sp, a))

EnterMarkets ==
    /\ last.op = "idle"
    /\ \E l \in AssetsInLists(network), f \in FailPoints(isReadonly, 1) :
        LET ms == IF l = {} THEN <<>> ELSE <<CHOOSE x \in l : TRUE>>
        IN  Invoke("enterMarkets", <<>>, "", "", ms, NoAmountGiven, DefaultEnv, f,
                   enterMarkets(network, isReadonly, ms))

SupplyToMarket ==
    /\ last.op = "idle"
    /\ \E sym \in SymbolInputs(network), a \in AmountTexts,
       env \in Envs(isReadonly, AssetsInLists(network), Allowances, {BigZero}),
       f \in FailPoints(isReadonly, 5) :
        Invoke("supplyToMarket", sym, "", "", <<>>, Given(a), env, f,
               supplyToMarket(network, isReadonly, sym, a, env))

BorrowFromMarket ==
    /\ last.op = "idle"
    /\ \E sym \in SymbolInputs(network), a \in AmountTexts, f \in FailPoints(isReadonly, 1) :
        Invoke("borrowFromMarket", sym, "", "", <<>>, Given(a), DefaultEnv, f,
               borrowFromMarket(network, isReadonly, sym, a))

RepayBorrow ==
    /\ last.op = "idle"
    /\ \E sym \in SymbolInputs(network), a \in OptionalAmounts,
       env \in Envs(isReadonly, {{}}, Allowances, {BigZero}), f \in FailPoints(isReadonly, 3) :
        Invoke("repayBorrow", sym, "", "", <<>>, a, env, f,
               repayBorrow(network, isReadonly, sym, a, env))

RedeemTokens ==
    /\ last.op = "idle"
    /\ \E sym \in SymbolInputs(network), a \in AmountTexts,
       env \in Envs(isReadonly, {{}}, {BigZero}, Balances), f \in FailPoints(isReadonly, 2) :
        Invoke("redeemTokens", sym, "", "", <<>>, Given(a), env, f,
               redeemTokens(network, isReadonly, sym, a, env))

RedeemUnderlying ==
    /\ last.op = "idle"
    /\ \E sym \in SymbolInputs(network), a \in AmountTexts, f \in FailPoints(isReadonly, 1) :
        Invoke("redeemUnderlying", sym, "", "", <<>>, Given(a), DefaultEnv, f,
               redeemUnderlying(network, isReadonly, sym, a))

\* the promise of the invocation settles and the caller takes its result
Settle ==
    /\ last.op # "idle"
    /\ last' = Idle
    /\ trace' = <<>>
    /\ UNCHANGED <<network, config, isReadonly, rIn, rOut, rOut2, query, reply, ledger, running>>

Next ==
    \/ SendNativeToken
    \/ SendERC20Token
    \/ ApproveToken
    \/ EnterMarkets
    \/ SupplyToMarket
    \/ BorrowFromMarket
    \/ RepayBorrow
    \/ RedeemTokens
    \/ RedeemUnderlying
    \/ Settle

Spec == Init /\ [][Next]_vars

(***************************************************************************)
(* The symbol resolver on its own: an input is drawn, resolved, and the    *)
(* result resolved again.                                                  *)
(***************************************************************************)
AllListedSymbols == UNION {TokenSymbols(n) \cup MarketSymbols(n) : n \in Networks}

ResolveInputs ==
    UNION {CaseVariants(x) : x \in AllListedSymbols}
    \cup {<<" ">> \o x \o <<" ">> : x \in {toLowerCase(y) : y \in AllListedSymbols}}
    \cup {<<"F","O","O">>, <<"E","T","H">>, <<>>, <<"c","U","S","D","T">>}

ResolveInit ==
    /\ network \in Networks
    /\ config = NoConfig
    /\ isReadonly = Constructor(config)
    /\ last = Idle
    /\ trace = <<>>
    /\ rIn \in ResolveInputs
    /\ rOut = Undefined
    /\ rOut2 = Undefined
    /\ query = NoQuery
    /\ reply = NoReply
    /\ ledger = NoLedger
    /\ running = [i \in Invocations |-> NoInvocation]

Resolve ==
    /\ ~rOut.defined
    /\ rOut' = Def(resolveTokenSymbol(network, rIn))
    /\ UNCHANGED <<network, config, isReadonly, last, trace, rIn, rOut2, query, reply, ledger, running>>

ResolveAgain ==
    /\ rOut.defined
    /\ ~rOut2.defined
    /\ rOut2' = Def(resolveTokenSymbol(network, rOut.value))
    /\ UNCHANGED <<network, config, isReadonly, last, trace, rIn, rOut, query, reply, ledger, running>>

ResolveNext == Resolve \/ ResolveAgain

ResolveSpec == ResolveInit /\ [][ResolveNext]_vars

(***************************************************************************)
(* BigInt arithmetic and JavaScript numbers of the read operations.  A     *)
(* number is m * 10^e / q, exactly; division by zero gives Infinity or     *)
(* NaN as in JavaScript.  The binary rounding of doubles is not modelled.  *)
(***************************************************************************)
\* the value of a digit string, for values that fit a machine integer
RECURSIVE IntOf(_)
IntOf(ds) ==
    IF ds = <<>> THEN 0
    ELSE 10 * IntOf(SubSeq(ds, 1, Len(ds) - 1)) + DigitVal(ds[Len(ds)])

\* the decimal digits of n >= 0
RECURSIVE IntDigits(_)
IntDigits(n) ==
    IF n < 10 THEN <<DigitChars[n + 1]>>
    ELSE IntDigits(n \div 10) \o <<DigitChars[(n % 10) + 1]>>

\* BigInt arithmetic works on limbs: the digits four at a time, the least
\* significant first
Limb == 10000

Limbs(ds) ==
    LET p == padStart(ds, 4 * ((Len(ds) + 3) \div 4))
    IN  [k \in 1..(Len(p) \div 4) |->
            LET o == Len(p) - 4 * k
            IN  DigitVal(p[o + 1]) * 1000 + DigitVal(p[o + 2]) * 100
                + DigitVal(p[o + 3]) * 10 + DigitVal(p[o + 4])]

\* the limbs of 0 <= n < 2^31
IntLimbs(n) ==
    IF n < Limb THEN <<n>>
    ELSE IF n < Limb * Limb THEN <<n % Limb, n \div Limb>>
    ELSE <<n % Limb, (n \div Limb) % Limb, n \div (Limb * Limb)>>

LimbDigits(l) ==
    <<DigitChars[(l \div 1000) + 1], DigitChars[((l \div 100) % 10) + 1],
      DigitChars[((l \div 10) % 10) + 1], DigitChars[(l % 10) + 1]>>

\* the digit string of limbs below Limb
DigitsOfLimbs(ls) ==
    StripLeadingZeros([i \in 1..(4 * Len(ls)) |->
                          LimbDigits(ls[Len(ls) - ((i - 1) \div 4)])[((i - 1) % 4) + 1]])

\* the limbs of the number whose k-th limb is raw[k], carries propagated
RECURSIVE Carried(_, _)
Carried(raw, carry) ==
    IF raw = <<>>
    THEN (IF carry = 0 THEN <<>> ELSE <<carry % Limb>> \o Carried(<<>>, carry \div Limb))
    ELSE <<(Head(raw) + carry) % Limb>> \o Carried(Tail(raw), (Head(raw) + carry) \div Limb)

\* the sum of a[i] * b[k + 1 - i] over the i from i to Len(a)
RECURSIVE Convolve(_, _, _, _)
Convolve(a, b, k, i) ==
    IF i > Len(a) \/ i > k THEN 0
    ELSE (IF k + 1 - i <= Len(b) THEN a[i] * b[k + 1 - i] ELSE 0) + Convolve(a, b, k, i + 1)

MulLimbs(a, b) == Carried([k \in 1..(Len(a) + Len(b) - 1) |-> Convolve(a, b, k, 1)], 0)

\* a * BigInt(n) for n >= 0
BigMulInt(a, n) == BigIntOf(a.neg, DigitsOfLimbs(MulLimbs(Limbs(a.digits), IntLimbs(n))))

\* a + b on non-negative BigInt
BigAdd(a, b) ==
    LET x == Limbs(a.digits)
        y == Limbs(b.digits)
        n == IF Len(x) > Len(y) THEN Len(x) ELSE Len(y)
    IN  BigIntOf(FALSE, DigitsOfLimbs(Carried(
            [k \in 1..n |-> (IF k <= Len(x) THEN x[k] ELSE 0) + (IF k <= Len(y) THEN y[k] ELSE 0)],
            0)))

\* a * b
BigMul(a, b) == BigIntOf(a.neg # b.neg, DigitsOfLimbs(MulLimbs(Limbs(a.digits), Limbs(b.digits))))

\* a / 10n ** BigInt(k): the quotient truncated towards zero
BigDivPow10(a, k) ==
    IF Len(a.digits) <= k THEN BigZero
    ELSE [neg |-> a.neg, digits |-> SubSeq(a.digits, 1, Len(a.digits) - k)]

\* how many digits a long division by q takes down at a time
ChunkSize(q) ==
    IF q <= 214748 THEN 4 ELSE IF q <= 2147483 THEN 3 ELSE IF q <= 21474836 THEN 2 ELSE 1

\* digits of (rem * 10^Len(ds) + ds) divided by the small q, and the remainder
RECURSIVE DivRem(_, _, _, _)
DivRem(ds, q, rem, acc) ==
    IF ds = <<>> THEN [digits |-> StripLeadingZeros(acc), rem |-> rem]
    ELSE LET c == IF Len(ds) < ChunkSize(q) THEN Len(ds) ELSE ChunkSize(q)
             cur == rem * <<10, 100, 1000, 10000>>[c] + Limbs(SubSeq(ds, 1, c))[1]
         IN  DivRem(SubSeq(ds, c + 1, Len(ds)), q, cur % q,
                    acc \o SubSeq(LimbDigits(cur \div q), 5 - c, 4))

RECURSIVE IntPow10(_)
IntPow10(k) == IF k = 0 THEN 1 ELSE 10 * IntPow10(k - 1)

Infinity == [kind |-> "Infinity", m |-> 0, e |-> 0, q |-> 1]

NaN == [kind |-> "NaN", m |-> 0, e |-> 0, q |-> 1]

\* Number(n) for a small integer n
NumInt(n) == Finite(n, 0, 1)

\* Number(big) and parseFloat(big.toString()) for a non-negative BigInt
NumberOf(big) ==
    LET sig == StripTrailingZeros(big.digits)
    IN  IF sig = <<>> THEN NumZero
        ELSE Finite(IntOf(sig), Len(big.digits) - Len(sig), 1)

\* x / Math.pow(10, k) and x / 1e18
NumDivPow10(x, k) == IF x.kind = "finite" /\ x.m # 0 THEN Finite(x.m, x.e - k, x.q) ELSE x

\* x * y
NumMul(x, y) ==
    IF x.kind = "NaN" \/ y.kind = "NaN" THEN NaN
    ELSE IF x.kind = "Infinity" \/ y.kind = "Infinity"
         THEN (IF (x.kind = "finite" /\ x.m = 0) \/ (y.kind = "finite" /\ y.m = 0)
               THEN NaN ELSE Infinity)
    ELSE IF x.m = 0 \/ y.m = 0 THEN NumZero
    ELSE Finite(x.m * y.m, x.e + y.e, x.q * y.q)

\* x / y
NumDiv(x, y) ==
    IF x.kind = "NaN" \/ y.kind = "NaN" THEN NaN
    ELSE IF x.kind = "Infinity" THEN (IF y.kind = "Infinity" THEN NaN ELSE Infinity)
    ELSE IF y.kind = "Infinity" THEN NumZero
    ELSE IF y.m = 0 THEN (IF x.m = 0 THEN NaN ELSE Infinity)
    ELSE IF x.m = 0 THEN NumZero
    ELSE Finite(x.m * y.q, x.e - y.e, x.q * y.m)

\* the numerators of x and y over the common denominator x.q * y.q * 10^-min(e)
NumAligned(x, y) ==
    LET e == IF x.e < y.e THEN x.e ELSE y.e
    IN  [x |-> x.m * IntPow10(x.e - e) * y.q, y |-> y.m * IntPow10(y.e - e) * x.q, e |-> e]

\* x + y
NumAdd(x, y) ==
    IF x.kind = "NaN" \/ y.kind = "NaN" THEN NaN
    ELSE IF x.kind = "Infinity" \/ y.kind = "Infinity" THEN Infinity
    ELSE IF x.m = 0 THEN y
    ELSE IF y.m = 0 THEN x
    ELSE LET a == NumAligned(x, y) IN Finite(a.x + a.y, a.e, x.q * y.q)

\* x === y as numbers
NumEq(x, y) ==
    /\ x.kind = y.kind
    /\ x.kind # "NaN"
    /\ x.kind = "finite" => LET a == NumAligned(x, y) IN a.x = a.y

\* x > y
NumGreater(x, y) ==
    IF x.kind = "NaN" \/ y.kind = "NaN" THEN FALSE
    ELSE IF y.kind = "Infinity" THEN FALSE
    ELSE IF x.kind = "Infinity" THEN TRUE
    ELSE LET a == NumAligned(x, y) IN a.x > a.y

\* x.toFixed(k) for x >= 0: rounded half up to k decimals
toFixed(x, k) ==
    IF x.kind = "NaN" THEN <<"N","a","N">>
    ELSE IF x.kind = "Infinity" THEN <<"I","n","f","i","n","i","t","y">>
    ELSE LET shift == x.e + k
             num == [neg |-> FALSE,
                     digits |-> IntDigits(2 * x.m) \o (IF shift >= 0 THEN Zeros(shift) ELSE <<>>)]
             den == IF shift >= 0 THEN x.q ELSE x.q * IntPow10(0 - shift)
             scaled == DivRem(BigAdd(num, [neg |-> FALSE, digits |-> IntDigits(den)]).digits,
                              2 * den, 0, <<>>).digits
             ds == padStart(scaled, k + 1)
         IN  IF k = 0 THEN ds
             ELSE SubSeq(ds, 1, Len(ds) - k) \o <<".">> \o SubSeq(ds, Len(ds) - k + 1, Len(ds))

\* 2^53: the integers below it are doubles
TwoPow53 == [neg |-> FALSE, digits |-> <<"9","0","0","7","1","9","9","2","5","4","7","4","0","9","9","2">>]

\* the double nearest to the integer n (ties to even), as an integer: n is
\* halved k times until it has 53 bits, rounded, and doubled k times
RECURSIVE RoundToDouble(_, _, _, _)
RoundToDouble(n, k, roundBit, sticky) ==
    IF ~BigLess(n, TwoPow53)
    THEN RoundToDouble(BigDivPow10(BigMulInt(n, 5), 1), k + 1,
                       DigitVal(n.digits[Len(n.digits)]) % 2,
                       IF roundBit = 1 THEN 1 ELSE sticky)
    ELSE LET odd == DigitVal(n.digits[Len(n.digits)]) % 2 = 1
             up == roundBit = 1 /\ (sticky = 1 \/ odd)
             mant == IF up THEN BigAdd(n, [neg |-> FALSE, digits |-> <<"1">>]) ELSE n
             Twice[j \in 0..k] == IF j = 0 THEN mant ELSE BigMulInt(Twice[j - 1], 2)
         IN  Twice[k]

\* BigInt(parseFloat(text)) for the text of a non-negative integer
BigIntOfFloat(big) == RoundToDouble(big, 0, 0, 0)

(***************************************************************************)
(* The price feed (tools/price-api).  api is the answer of the price       *)
(* service: api.outcome is "ok", "unsuccessful" or "throws", api.data the  *)
(* list of [symbol, price] it carries.                                     *)
(***************************************************************************)
STAKED_KAIA == <<"S","T","A","K","E","D","_","K","A","I","A">>

MARBLEX == <<"M","A","R","B","L","E","X">>

\* TOKEN_SYMBOL_MAP[item.symbol] || item.symbol
TOKEN_SYMBOL_MAP(symbol) ==
    IF symbol = STAKED_KAIA THEN stKAIA
    ELSE IF symbol = MARBLEX THEN MBX
    ELSE symbol

mapApiResponse(prices) ==
    LET mappedPrices == [i \in 1..Len(prices) |->
                            [prices[i] EXCEPT !.symbol = TOKEN_SYMBOL_MAP(prices[i].symbol)]]
        IsUSDT(p) == p.symbol = USDT
        usdtPrice == Find(mappedPrices, IsUSDT)
    IN  IF usdtPrice.defined
        THEN Append(mappedPrices, [usdtPrice.value EXCEPT !.symbol = KUSDT])
        ELSE mappedPrices

\* mutant: the success flag of the response is not looked at
getAllPricesIgnoringSuccess(api) == [success |-> TRUE, prices |-> mapApiResponse(api.data)]

getAllPrices(api) ==
    IF api.outcome = "ok" THEN [success |-> TRUE, prices |-> mapApiResponse(api.data)]
    ELSE [success |-> FALSE, prices |-> <<>>]

getTokensForChain(net) == TokenSymbols(net)

getNetworkPrices(net, api) ==
    LET allPricesResult == getAllPrices(api)
    IN  IF ~allPricesResult.success THEN allPricesResult
        ELSE [success |-> TRUE,
              prices |-> SelectSeq(allPricesResult.prices,
                                   LAMBDA price : price.symbol \in getTokensForChain(net))]

\* the mapping symbol -> price, as the list of its entries; {} is <<>>
fetchPrices(net, api) ==
    LET pricesResult == getNetworkPrices(net, api)
    IN  IF pricesResult.success THEN pricesResult.prices ELSE <<>>

\* prices[symbol] || 0: the last entry of the symbol wins
PriceOf(prices, symbol) ==
    LET hits == {i \in 1..Len(prices) : prices[i].symbol = symbol}
    IN  IF hits = {} THEN NumZero
        ELSE prices[CHOOSE i \in hits : \A j \in hits : j <= i].price

getTokenPrice(net, api, symbol) == PriceOf(fetchPrices(net, api), symbol)

(***************************************************************************)
(* The read operations.  chain is what the chain returns to the reads of   *)
(* the invocation: chain.failing are the contracts with a rejected read,   *)
(* chain.failingRead the read they reject, chain.market the values a       *)
(* market contract returns.                                                *)
(***************************************************************************)
\* mutant: the blocks per year of kaia on every network
blocksPerYearOfKaia(net) == 15768000

blocksPerYear(net) ==
    CASE net = "kaia" -> 15768000
      [] net = "kub" -> 6307200
      [] net = "etherlink" -> 39420000

MarketReads ==
    <<"exchangeRateStored", "supplyRatePerBlock", "borrowRatePerBlock",
      "totalSupply", "totalBorrows", "getCash">>

\* the reads a contract answers, the rejected one marked
ReadsOf(fns, address, chain) ==
    [i \in 1..Len(fns) |->
        IF address \in chain.failing /\ fns[i] = chain.failingRead
        THEN [Read(fns[i], address) EXCEPT !.error = "rejected"]
        ELSE Read(fns[i], address)]

Rejected(reads) == \E i \in 1..Len(reads) : reads[i].error # ""

\* mutant: a rejected read does not reject the market data
getMarketDataIgnoringRejection(cTokenAddress, chain) ==
    [ok |-> TRUE, trace |-> ReadsOf(MarketReads, cTokenAddress, chain),
     data |-> chain.market[cTokenAddress]]

\* Promise.all of the six reads: all are issued, one rejection rejects all
getMarketData(cTokenAddress, chain) ==
    LET reads == ReadsOf(MarketReads, cTokenAddress, chain)
    IN  [ok |-> ~Rejected(reads), trace |-> reads, data |-> chain.market[cTokenAddress]]

\* Number((BigInt(ratePerBlock) * blocksPerYear * BigInt(10000)) / scale) / 100
Apy(net, ratePerBlock) ==
    NumDivPow10(
        NumberOf(BigDivPow10(BigMulInt(BigMulInt(BigIntOfFloat(ratePerBlock), blocksPerYear(net)),
                                       10000), 18)),
        2)

\* mutant: the utilization is computed without the zero test
UtilizationUnguarded(totalSupply, exchangeRate, totalBorrows) ==
    NumMul(NumDiv(totalBorrows, NumMul(totalSupply, exchangeRate)), NumInt(100))

\* (totalSupply * exchangeRate) > 0 ? (totalBorrows / (totalSupply * exchangeRate)) * 100 : 0
Utilization(totalSupply, exchangeRate, totalBorrows) ==
    IF NumGreater(NumMul(totalSupply, exchangeRate), NumZero)
    THEN NumMul(NumDiv(totalBorrows, NumMul(totalSupply, exchangeRate)), NumInt(100))
    ELSE NumZero

\* the entry getAllMarkets pushes for a market whose data was read
MarketEntry(net, prices, symbol, cTokenAddress, marketData) ==
    LET price == PriceOf(prices, symbol)
        exchangeRate == NumDivPow10(NumberOf(marketData.exchangeRate), 18)
        tokenDecimals == getTokenDecimals(net, symbol)
        totalSupply == NumDivPow10(NumberOf(marketData.totalSupply), tokenDecimals)
        totalBorrows == NumDivPow10(NumberOf(marketData.totalBorrows), tokenDecimals)
        cash == NumDivPow10(NumberOf(marketData.cash), tokenDecimals)
        supplyApy == Apy(net, marketData.supplyRatePerBlock)
        borrowApy == Apy(net, marketData.borrowRatePerBlock)
        utilization == Utilization(totalSupply, exchangeRate, totalBorrows)
    IN  [symbol |-> CKey(symbol),
         underlyingSymbol |-> symbol,
         cTokenAddress |-> cTokenAddress,
         underlyingAddress |-> TokenAddressAt(net, symbol),
         supplyApy |-> toFixed(supplyApy, 2),
         borrowApy |-> toFixed(borrowApy, 2),
         totalSupply |-> toFixed(NumMul(totalSupply, exchangeRate), 6),
         totalBorrows |-> toFixed(totalBorrows, 6),
         cash |-> toFixed(cash, 6),
         utilizationRate |-> toFixed(utilization, 2),
         exchangeRate |-> toFixed(exchangeRate, 6),
         price |-> price,
         isListed |-> TRUE]

\* the loop over the contract table: the markets whose data was read are
\* pushed in the order of the table, the others are logged and skipped
getAllMarkets(net, api, chain) ==
    LET prices == fetchPrices(net, api)
        table == getCTokenAddresses(net)
        marketData == [n \in 1..Len(table) |-> getMarketData(table[n].address, chain)]
        read == SelectSeq([n \in 1..Len(table) |-> n], LAMBDA n : marketData[n].ok)
    IN  [reply |-> [kind |-> "ok",
                    markets |-> [i \in 1..Len(read) |->
                                    MarketEntry(net, prices, table[read[i]].symbol,
                                                table[read[i]].address,
                                                marketData[read[i]].data)]],
         trace |-> [j \in 1..(Len(table) * Len(MarketReads)) |->
                       marketData[((j - 1) \div Len(MarketReads)) + 1]
                           .trace[((j - 1) % Len(MarketReads)) + 1]]]

Comptroller(net) == ContractAt(net, <<"C","o","m","p","t","r","o","l","l","e","r">>).value

\* the market symbol of a cToken address, 'UNKNOWN' when the table has none;
\* the chain returns the addresses in the spelling of the contract table
UNKNOWN == <<"U","N","K","N","O","W","N">>

MarketSymbolOf(net, cTokenAddress) ==
    LET AddressIs(c) == c.address = cTokenAddress
        hit == Find(getCTokenAddresses(net), AddressIs)
    IN  IF hit.defined THEN hit.value.symbol ELSE UNKNOWN

\* mutant: the error code of the snapshot is not looked at
isSnapshotErrorNever(error) == FALSE

\* Number(error) !== 0 on the error code of getAccountSnapshot
isSnapshotError(error) == error # 0

\* getUserPosition: null on a rejected read and on a nonzero snapshot error
getUserPosition(net, api, cTokenAddress, chain) ==
    LET reads == ReadsOf(<<"getAccountSnapshot", "balanceOf">>, cTokenAddress, chain)
        accountSnapshot == chain.position[cTokenAddress]
        supplyBalance ==
            BigDivPow10(BigMul(accountSnapshot.cTokenBalance, accountSnapshot.exchangeRateMantissa), 18)
        marketSymbol == MarketSymbolOf(net, cTokenAddress)
        price == getTokenPrice(net, api, marketSymbol)
        tokenDecimals == getTokenDecimals(net, marketSymbol)
        supplyBalanceFormatted == NumDivPow10(NumberOf(supplyBalance), tokenDecimals)
        borrowBalanceFormatted == NumDivPow10(NumberOf(accountSnapshot.borrowBalance), tokenDecimals)
    IN  [trace |-> reads,
         position |->
            IF Rejected(reads) \/ isSnapshotError(accountSnapshot.error) THEN Undefined
            ELSE Def([cTokenAddress |-> cTokenAddress,
                      symbol |-> marketSymbol,
                      underlyingSymbol |-> marketSymbol,
                      supplyBalance |-> supplyBalanceFormatted,
                      borrowBalance |-> borrowBalanceFormatted,
                      supplyValueUSD |-> NumMul(supplyBalanceFormatted, price),
                      borrowValueUSD |-> NumMul(borrowBalanceFormatted, price),
                      collateralFactor |-> 75,
                      isCollateral |-> TRUE])]

\* the loop of getAccountLiquidity over the first n entered markets
RECURSIVE PositionsUpTo(_, _, _, _, _)
PositionsUpTo(net, api, chain, assetsIn, n) ==
    IF n = 0
    THEN [positions |-> <<>>, totalCollateralUSD |-> NumZero, totalBorrowUSD |-> NumZero,
          trace |-> <<>>]
    ELSE LET before == PositionsUpTo(net, api, chain, assetsIn, n - 1)
             got == getUserPosition(net, api, assetsIn[n], chain)
         IN  IF got.position.defined
             THEN [positions |-> Append(before.positions, got.position.value),
                   totalCollateralUSD |->
                       NumAdd(before.totalCollateralUSD, got.position.value.supplyValueUSD),
                   totalBorrowUSD |->
                       NumAdd(before.totalBorrowUSD, got.position.value.borrowValueUSD),
                   trace |-> before.trace \o got.trace]
             ELSE [before EXCEPT !.trace = before.trace \o got.trace]

\* mutant: the health factor is always the quotient
HealthFactorAlwaysDivides(totalCollateralUSD, totalBorrowUSD) ==
    NumDiv(totalCollateralUSD, totalBorrowUSD)

\* totalBorrowUSD > 0 ? totalCollateralUSD / totalBorrowUSD : 999
HealthFactor(totalCollateralUSD, totalBorrowUSD) ==
    IF NumGreater(totalBorrowUSD, NumZero)
    THEN NumDiv(totalCollateralUSD, totalBorrowUSD)
    ELSE NumInt(999)

Failed(error) == [kind |-> "error", error |-> error]

\* mutant: the error code of the comptroller is not looked at
isComptrollerErrorNever(error) == FALSE

\* Number(error) !== 0 on the error code of getAccountLiquidity
isComptrollerError(error) == error # 0

\* accountAddress is "" when the caller gives none; the agent has an address
\* of its own exactly when it holds a key
getAccountLiquidity(net, ro, accountAddress, api, chain) ==
    LET comptrollerAddress == Comptroller(net)
        first == ReadsOf(<<"getAccountLiquidity">>, comptrollerAddress, chain)
        second == ReadsOf(<<"getAssetsIn">>, comptrollerAddress, chain)
        all == PositionsUpTo(net, api, chain, chain.assetsIn, Len(chain.assetsIn))
    IN  IF accountAddress = "" /\ ro THEN [reply |-> Failed("NoAddress"), trace |-> <<>>]
        ELSE IF Rejected(first)
        THEN [reply |-> Failed("FailedToGetAccountLiquidity"), trace |-> first]
        ELSE IF isComptrollerError(chain.account.error)
        THEN [reply |-> Failed("FailedToGetAccountLiquidity"), trace |-> first]
        ELSE IF Rejected(second)
        THEN [reply |-> Failed("FailedToGetAccountLiquidity"), trace |-> first \o second]
        ELSE [reply |->
                 [kind |-> "ok",
                  liquidity |-> NumDivPow10(NumberOf(chain.account.liquidity), 18),
                  shortfall |-> NumDivPow10(NumberOf(chain.account.shortfall), 18),
                  healthFactor |-> HealthFactor(all.totalCollateralUSD, all.totalBorrowUSD),
                  totalCollateralUSD |-> all.totalCollateralUSD,
                  totalBorrowUSD |-> all.totalBorrowUSD,
                  positions |-> all.positions],
              trace |-> first \o second \o all.trace]

\* parseFloat of a toFixed(2) text
ParseFixed2(text) ==
    Finite(IntOf(SelectSeq(text, LAMBDA c : c # ".")), 0 - 2, 1)

\* tokens.sort((a, b) => parseFloat(b.balanceUSD) - parseFloat(a.balanceUSD)):
\* highest first, equal values in their order of arrival
RECURSIVE SortByUSD(_)
SortByUSD(tokens) ==
    IF tokens = <<>> THEN <<>>
    ELSE LET sorted == SortByUSD(SubSeq(tokens, 1, Len(tokens) - 1))
             t == tokens[Len(tokens)]
             ahead == {i \in 1..Len(sorted) :
                          ~NumGreater(ParseFixed2(t.balanceUSD), ParseFixed2(sorted[i].balanceUSD))}
             k == Cardinality(ahead)
         IN  SubSeq(sorted, 1, k) \o <<t>> \o SubSeq(sorted, k + 1, Len(sorted))

RECURSIVE SumUSD(_)
SumUSD(tokens) ==
    IF tokens = <<>> THEN NumZero
    ELSE NumAdd(SumUSD(SubSeq(tokens, 1, Len(tokens) - 1)),
                ParseFixed2(tokens[Len(tokens)].balanceUSD))

\* the loop of getWalletInfo over the first n tokens of the token table
RECURSIVE TokensUpTo(_, _, _, _)
TokensUpTo(net, prices, chain, n) ==
    IF n = 0 THEN [tokens |-> <<>>, trace |-> <<>>]
    ELSE LET before == TokensUpTo(net, prices, chain, n - 1)
             tokenConfig == getTokenConfigs(net)[n]
             price == PriceOf(prices, tokenConfig.symbol)
             isNativeToken == tokenConfig.address = NativeAddress
             reads == IF isNativeToken THEN <<>>
                      ELSE ReadsOf(<<"balanceOf">>, tokenConfig.address, chain)
             tokenBalance == IF isNativeToken THEN chain.native
                             ELSE chain.balance[tokenConfig.address]
             decimals == IF isNativeToken THEN 18 ELSE tokenConfig.decimals
             balanceFormatted == NumDivPow10(NumberOf(tokenBalance), decimals)
             balanceUSD == NumMul(balanceFormatted, price)
             shown == NumGreater(balanceUSD, Finite(1, 0 - 2, 1))
                      \/ NumGreater(balanceFormatted, NumZero)
         IN  [tokens |-> IF ~Rejected(reads) /\ shown
                         THEN Append(before.tokens,
                                     [symbol |-> tokenConfig.symbol,
                                      address |-> tokenConfig.address,
                                      balance |-> balanceFormatted,
                                      balanceUSD |-> toFixed(balanceUSD, 2),
                                      price |-> price,
                                      decimals |-> decimals])
                         ELSE before.tokens,
              trace |-> before.trace \o reads]

\* getWalletInfo; nativeBalance is the balance before its display formatting
getWalletInfo(net, ro, api, chain) ==
    LET first == ReadsOf(<<"getBalance">>, "", chain)
        prices == fetchPrices(net, api)
        all == TokensUpTo(net, prices, chain, Len(getTokenConfigs(net)))
        tokens == SortByUSD(all.tokens)
    IN  IF ro THEN [reply |-> Failed("WalletNotInitialized"), trace |-> <<>>]
        ELSE IF Rejected(first)
        THEN [reply |-> Failed("FailedToGetWalletInfo"), trace |-> first]
        ELSE [reply |->
                 [kind |-> "ok",
                  nativeBalance |-> chain.native,
                  nativeBalanceUSD |->
                      toFixed(NumMul(NumDivPow10(NumberOf(chain.native), 18),
                                     PriceOf(prices, nativeCurrency(net))), 2),
                  tokens |-> tokens,
                  totalPortfolioUSD |-> toFixed(SumUSD(tokens), 2),
                  network |-> net,
                  mode |-> IF ro THEN "read-only" ELSE "transaction"],
              trace |-> first \o all.trace]

(***************************************************************************)
(* Inputs of the read operations.                                          *)
(***************************************************************************)
ApiData ==
    << [symbol |-> KAIA, price |-> Finite(5, 0 - 1, 1)],
       [symbol |-> STAKED_KAIA, price |-> NumInt(2)],
       [symbol |-> MARBLEX, price |-> NumInt(2)],
       [symbol |-> BORA, price |-> NumInt(2)],
       [symbol |-> SIX, price |-> NumInt(2)],
       [symbol |-> USDT, price |-> NumInt(1)],
       [symbol |-> KUB, price |-> NumInt(2)],
       [symbol |-> XTZ, price |-> NumInt(2)] >>

Feeds ==
    { [outcome |-> "ok", data |-> ApiData],
      [outcome |-> "ok", data |-> <<>>],
      [outcome |-> "unsuccessful", data |-> ApiData],
      [outcome |-> "throws", data |-> <<>>] }

\* the rate per block of 5% a year on kaia: floor(5 * 10^16 / 15768000), and
\* the next integer
FivePercentFloor == [neg |-> FALSE, digits |-> <<"3","1","7","0","9","7","9","1","9","8">>]

FivePercentCeil == [neg |-> FALSE, digits |-> <<"3","1","7","0","9","7","9","1","9","9">>]

\* units tokens of a token with the given decimals, as the chain returns them
Units(units, decimals) == BigIntOf(FALSE, IntDigits(units) \o Zeros(decimals))

\* what a market contract returns, amounts in whole tokens; an exchange rate
\* of 0.2 is 2 * 10^17
MarketValues ==
    { [supplyRate |-> BigZero, borrowRate |-> BigZero, supply |-> 500, rate |-> 2, borrows |-> 100],
      [supplyRate |-> FivePercentFloor, borrowRate |-> FivePercentCeil, supply |-> 500, rate |-> 2, borrows |-> 100],
      [supplyRate |-> FivePercentCeil, borrowRate |-> FivePercentFloor, supply |-> 0, rate |-> 2, borrows |-> 100],
      [supplyRate |-> BigZero, borrowRate |-> FivePercentCeil, supply |-> 500, rate |-> 0, borrows |-> 100],
      [supplyRate |-> FivePercentFloor, borrowRate |-> BigZero, supply |-> 500, rate |-> 2, borrows |-> 0],
      [supplyRate |-> BigZero, borrowRate |-> BigZero, supply |-> 0, rate |-> 0, borrows |-> 0] }

MarketDataOf(net, v) ==
    [a \in CTokenAddressSet(net) |->
        LET decimals == getTokenDecimals(net, MarketSymbolOf(net, a))
        IN  [exchangeRate |-> BigMulInt(Pow10(17), v.rate),
             supplyRatePerBlock |-> v.supplyRate,
             borrowRatePerBlock |-> v.borrowRate,
             totalSupply |-> Units(v.supply, decimals),
             totalBorrows |-> Units(v.borrows, decimals),
             cash |-> Units(400, decimals)]]

\* the subsets of S with at most MaxFailing elements
FailingSets(S) == {F \in SUBSET S : Cardinality(F) <= MaxFailing}

MarketChains(net) ==
    {[failing |-> {}, failingRead |-> "", market |-> MarketDataOf(net, v)] : v \in MarketValues}
    \cup {[failing |-> F, failingRead |-> fn, market |-> MarketDataOf(net, v)] :
            F \in FailingSets(CTokenAddressSet(net)) \ {{}},
            fn \in {MarketReads[i] : i \in 1..Len(MarketReads)},
            v \in MarketValues}

ForeignMarket == "0x9999999999999999999999999999999999999999"

\* the entered markets the comptroller reports: up to MaxPositions consecutive
\* markets of the contract table, or a contract the table does not have
EnteredLists(net) ==
    LET cs == getCTokenAddresses(net)
        windows == {w \in (1..Len(cs)) \X (1..MaxPositions) : w[1] + w[2] - 1 <= Len(cs)}
    IN  {<<>>, <<ForeignMarket>>}
        \cup {[j \in 1..w[2] |-> cs[w[1] + j - 1].address] : w \in windows}

\* cTokens held and tokens borrowed on every entered market, in whole tokens
PositionValues == {[held |-> 0, borrowed |-> 0], [held |-> 250, borrowed |-> 0],
                   [held |-> 250, borrowed |-> 10]}

PositionDataOf(net, l, bad, v) ==
    [a \in {l[j] : j \in 1..Len(l)} |->
        LET decimals == getTokenDecimals(net, MarketSymbolOf(net, a))
        IN  [error |-> IF a \in bad THEN 3 ELSE 0,
             borrowBalance |-> Units(v.borrowed, decimals),
             exchangeRateMantissa |-> BigMulInt(Pow10(17), 2),
             cTokenBalance |-> Units(v.held, decimals)]]

AccountOk == [error |-> 0, liquidity |-> Pow10(18), shortfall |-> BigZero]

AccountError == [error |-> 4, liquidity |-> BigZero, shortfall |-> BigZero]

\* the failures one read of an account's liquidity may meet: none, a rejected
\* comptroller read, or a rejected position read on some entered markets
LiquidityFailures(net, l) ==
    {[failing |-> {}, failingRead |-> ""]}
    \cup {[failing |-> {Comptroller(net)}, failingRead |-> fn] :
            fn \in {"getAccountLiquidity", "getAssetsIn"}}
    \cup {[failing |-> F, failingRead |-> fn] :
            F \in FailingSets({l[j] : j \in 1..Len(l)}) \ {{}},
            fn \in {"getAccountSnapshot", "balanceOf"}}

LiquidityChains(net) ==
    {[failing |-> {}, failingRead |-> "", account |-> AccountError, assetsIn |-> l,
      position |-> PositionDataOf(net, l, {}, CHOOSE v \in PositionValues : v.borrowed > 0)] :
        l \in EnteredLists(net)}
    \cup UNION { {[failing |-> f.failing, failingRead |-> f.failingRead, account |-> AccountOk,
                   assetsIn |-> l, position |-> PositionDataOf(net, l, bad, v)] :
                     f \in LiquidityFailures(net, l),
                     bad \in SUBSET {l[j] : j \in 1..Len(l)},
                     v \in PositionValues} :
                 l \in EnteredLists(net) }

GivenAccount == "0x2222222222222222222222222222222222222222"

ERC20Addresses(net) ==
    {getTokenConfigs(net)[i].address : i \in 1..Len(getTokenConfigs(net))} \ {NativeAddress}

WalletChains(net) ==
    {[failing |-> F, failingRead |-> "balanceOf", native |-> Units(n, 18),
      balance |-> [a \in ERC20Addresses(net) |->
                      LET AddressIs(t) == t.address = a
                      IN  Units(b, Find(getTokenConfigs(net), AddressIs).value.decimals)]] :
        F \in FailingSets(ERC20Addresses(net)), n \in {0, 3}, b \in {0, 7}}
    \cup {[failing |-> {""}, failingRead |-> "getBalance", native |-> BigZero,
           balance |-> [a \in ERC20Addresses(net) |-> BigZero]]}

(***************************************************************************)
(* The read operations as a state machine: a read operation is called      *)
(* (query), it returns or fails (reply, with its reads in trace), and the  *)
(* caller takes the reply.                                                 *)
(***************************************************************************)
ReadInit ==
    /\ network \in Networks
    /\ config \in {NoConfig, [kind |-> "string", privateKey |-> "valid", mode |-> "absent"]}
    /\ isReadonly = Constructor(config)
    /\ last = Idle
    /\ trace = <<>>
    /\ rIn = <<>>
    /\ rOut = Undefined
    /\ rOut2 = Undefined
    /\ query = NoQuery
    /\ reply = NoReply
    /\ ledger = NoLedger
    /\ running = [i \in Invocations |-> NoInvocation]

Answer(op, accountAddress, api, chain, r) ==
    /\ query' = [op |-> op, accountAddress |-> accountAddress, api |-> api, chain |-> chain]
    /\ reply' = r.reply
    /\ trace' = r.trace
    /\ UNCHANGED <<network, config, isReadonly, last, rIn, rOut, rOut2, ledger, running>>

GetAllMarkets ==
    /\ query.op = "none"
    /\ \E api \in Feeds, chain \in MarketChains(network) :
        Answer("getAllMarkets", "", api, chain, getAllMarkets(network, api, chain))

GetAccountLiquidity ==
    /\ query.op = "none"
    /\ \E accountAddress \in (IF isReadonly THEN {"", GivenAccount} ELSE {""}),
          api \in Feeds \ {[outcome |-> "ok", data |-> <<>>]},
          chain \in LiquidityChains(network) :
        Answer("getAccountLiquidity", accountAddress, api, chain,
               getAccountLiquidity(network, isReadonly, accountAddress, api, chain))

GetWalletInfo ==
    /\ query.op = "none"
    /\ \E api \in Feeds, chain \in WalletChains(network) :
        Answer("getWalletInfo", "", api, chain, getWalletInfo(network, isReadonly, api, chain))

\* the caller takes the reply
Return ==
    /\ query.op # "none"
    /\ query' = NoQuery
    /\ reply' = NoReply
    /\ trace' = <<>>
    /\ UNCHANGED <<network, config, isReadonly, last, rIn, rOut, rOut2, ledger, running>>

ReadNext == GetAllMarkets \/ GetAccountLiquidity \/ GetWalletInfo \/ Return

ReadSpec == ReadInit /\ [][ReadNext]_vars

(***************************************************************************)
(* The tool handlers (mcp/kilolend) and the agent operations they call,    *)
(* taken one chain-client call at a time.  ledger is the state of the      *)
(* chain: the entered markets and the allowances of the wallet, and the    *)
(* transactions broadcast and not yet mined.  running[i] is invocation i:  *)
(* its inputs, what its reads returned so far (env), the calls it made and *)
(* its position in the plan of its handler.  A handler does not wait for   *)
(* the mining of what it broadcasts.                                       *)
(***************************************************************************)
\* a call or throw of a handler, with the try block it is made in; index
\* numbers the blocks of a loop
Event(scope, index, call) == [scope |-> scope, index |-> index, call |-> call]

Scoped(scope, index, plan) == [i \in 1..Len(plan) |-> Event(scope, index, plan[i])]

\* the try blocks whose catch logs a warning and lets the handler go on
Swallowing == {"balance", "liquidity", "membership"}

\* the errors those catch blocks throw again
Rethrown == {"ToolInsufficientBalance", "ToolInsufficientLiquidity", "ToolHealthFactorTooLow",
             "ToolInsufficientUnderlying"}

\* Number(text) of a decimal literal; any other text of the inputs is NaN
NumberOfText(text) ==
    LET t == trim(text)
        negative == startsWith(t, "-")
        body == IF negative THEN Tail(t) ELSE t
        dot == DotIndex(body)
        digits == SelectSeq(body, LAMBDA c : c # ".")
        value == IntOf(digits)
    IN  IF t = <<>> THEN NumZero
        ELSE IF ~IsDecimalNumber(t) \/ digits = <<>> THEN NaN
        ELSE Finite(IF negative THEN 0 - value ELSE value,
                    IF dot = 0 THEN 0 ELSE 0 - (Len(body) - dot), 1)

\* the cToken keys the supply tool tries, in order
SupplyVariations(resolvedToken) ==
    << CKey(resolvedToken), CKey(toUpperCase(resolvedToken)), CKey(toLowerCase(resolvedToken)),
       CKey(StKAIA), CKey(stKAIA), CKey(STKAIA) >>

\* the balance check of the supply tool: the balance read, the comparison and,
\* for an ERC-20 token with auto_approve, the allowance read, whose result
\* only goes into the reply
SupplyBalanceCheck(net, tokenSymbol, amount, autoApprove, cTokenAddress, env) ==
    LET tokenAddress == TokenAddressAt(net, tokenSymbol)
        erc20 == tokenAddress.defined /\ tokenAddress.value # NativeAddress
        tokenDecimals == IF erc20 THEN getTokenDecimals(net, tokenSymbol) ELSE 18
        balanceFormatted == NumDivPow10(NumberOf(env.toolBalance), tokenDecimals)
        requestedAmount == NumberOfText(amount)
    IN  (IF erc20 THEN <<Read("balanceOf", tokenAddress.value)>> ELSE <<Read("getBalance", "")>>)
        \o (IF NumGreater(requestedAmount, balanceFormatted)
            THEN <<Throw("ToolInsufficientBalance", FALSE)>>
            ELSE IF erc20 /\ autoApprove
            THEN checkAllowance(net, tokenSymbol, cTokenAddress, env).plan
            ELSE <<>>)

\* the market entry step of the supply tool
SupplyMarketEntry(net, ro, cTokenAddress, env) ==
    checkMarketMembership(net, cTokenAddress)
    \o (IF ~isMember(env.members[1], cTokenAddress)
        THEN enterMarkets(net, ro, <<cTokenAddress>>)
        ELSE <<>>)

\* kilolend_supply_to_lending
SupplyToMarketTool(net, ro, input, env) ==
    LET tokenSymbol == trim(input.symbol)
        HasMarket(v) == ContractAt(net, v).defined
        variation == Find(SupplyVariations(tokenSymbol), HasMarket)
        cTokenAddress == ContractAt(net, variation.value).value
    IN  IF ro THEN <<Event("tool", 0, Throw("ToolTransactionMode", FALSE))>>
        ELSE IF ~variation.defined
        THEN <<Event("tool", 0, Throw("ToolTokenNotAvailable", FALSE))>>
        ELSE (IF input.check
              THEN Scoped("balance", 0,
                       SupplyBalanceCheck(net, tokenSymbol, input.amount.text, input.autoApprove,
                                          cTokenAddress, env))
              ELSE <<>>)
             \o Scoped("membership", 1, SupplyMarketEntry(net, ro, cTokenAddress, env))
             \o Scoped("agent", 0, supplyToMarket(net, ro, tokenSymbol, input.amount.text, env))

\* mutant: the liquidity is read and not looked at
BorrowLiquidityUnchecked(net, env) == <<Read("getAccountLiquidity", Comptroller(net))>>

\* the liquidity check of the borrow tool
BorrowLiquidityCheck(net, env) ==
    LET liquidity == env.liquidity.liquidity
        healthFactor == env.liquidity.healthFactor
    IN  <<Read("getAccountLiquidity", Comptroller(net))>>
        \o (IF NumGreater(NumZero, liquidity) \/ NumEq(liquidity, NumZero)
            THEN <<Throw("ToolInsufficientLiquidity", FALSE)>>
            ELSE IF NumGreater(Finite(15, 0 - 1, 1), healthFactor)
            THEN <<Throw("ToolHealthFactorTooLow", FALSE)>>
            ELSE <<>>)

\* kilolend_borrow_from_lending
BorrowFromMarketTool(net, ro, input, env) ==
    LET tokenSymbol == toUpperCase(input.symbol)
        cTokenAddress == ContractAt(net, CKey(tokenSymbol))
    IN  IF ro THEN <<Event("tool", 0, Throw("ToolTransactionMode", FALSE))>>
        ELSE IF ~cTokenAddress.defined
        THEN <<Event("tool", 0, Throw("ToolTokenNotAvailable", FALSE))>>
        ELSE (IF input.check THEN Scoped("liquidity", 0, BorrowLiquidityCheck(net, env)) ELSE <<>>)
             \o Scoped("agent", 0, borrowFromMarket(net, ro, tokenSymbol, input.amount.text))

\* the balance check of the redeem-underlying tool: the cToken balance, the
\* six reads of getMarketData taken one after the other, and the comparison
RedeemBalanceCheck(net, tokenSymbol, underlyingAmount, cTokenAddress, env) ==
    LET exchangeRate == NumDivPow10(NumberOf(env.exchangeRate), 18)
        maxUnderlying == NumMul(NumberOf(env.toolBalance), exchangeRate)
        tokenDecimals == getTokenDecimals(net, tokenSymbol)
        maxUnderlyingFormatted == NumDivPow10(maxUnderlying, tokenDecimals)
        requestedAmount == NumberOfText(underlyingAmount)
    IN  <<Read("balanceOf", cTokenAddress)>>
        \o [i \in 1..Len(MarketReads) |-> Read(MarketReads[i], cTokenAddress)]
        \o (IF NumGreater(requestedAmount, maxUnderlyingFormatted)
            THEN <<Throw("ToolInsufficientUnderlying", FALSE)>>
            ELSE <<>>)

\* kilolend_redeem_underlying
RedeemUnderlyingTool(net, ro, input, env) ==
    LET tokenSymbol == toUpperCase(input.symbol)
        cTokenAddress == ContractAt(net, CKey(tokenSymbol))
    IN  IF ro THEN <<Event("tool", 0, Throw("ToolTransactionMode", FALSE))>>
        ELSE IF ~cTokenAddress.defined
        THEN <<Event("tool", 0, Throw("ToolTokenNotAvailable", FALSE))>>
        ELSE (IF input.check
              THEN Scoped("balance", 0,
                       RedeemBalanceCheck(net, tokenSymbol, input.amount.text,
                                          cTokenAddress.value, env))
              ELSE <<>>)
             \o Scoped("agent", 0, redeemUnderlying(net, ro, tokenSymbol, input.amount.text))

\* mutant: every requested market is handed to enterMarkets, entered or not
RequestedMarketsAll(net, tokenSymbols, checkMembership, env) ==
    LET wanted == SelectSeq([k \in 1..Len(tokenSymbols) |-> k],
                      LAMBDA k : ContractAt(net, CKey(tokenSymbols[k])).defined)
    IN  [j \in 1..Len(wanted) |-> ContractAt(net, CKey(tokenSymbols[wanted[j]])).value]

\* the markets the enter-market tool hands to enterMarkets: those of the
\* requested symbols, in order, that the membership check did not confirm
RequestedMarkets(net, tokenSymbols, checkMembership, env) ==
    LET wanted == SelectSeq([k \in 1..Len(tokenSymbols) |-> k],
                      LAMBDA k : /\ ContractAt(net, CKey(tokenSymbols[k])).defined
                                 /\ (checkMembership =>
                                        ~isMember(env.members[k],
                                                  ContractAt(net, CKey(tokenSymbols[k])).value)))
    IN  [j \in 1..Len(wanted) |-> ContractAt(net, CKey(tokenSymbols[wanted[j]])).value]

\* kilolend_enter_market
EnterMarketTool(net, ro, input, env) ==
    LET tokenSymbols == [k \in 1..Len(input.symbols) |-> toUpperCase(input.symbols[k])]
        available == SelectSeq([k \in 1..Len(tokenSymbols) |-> k],
                         LAMBDA k : ContractAt(net, CKey(tokenSymbols[k])).defined)
        checks == [j \in 1..Len(available) |->
                      Event("membership", available[j],
                            checkMarketMembership(net,
                                ContractAt(net, CKey(tokenSymbols[available[j]])).value)[1])]
        cTokenAddresses == RequestedMarkets(net, tokenSymbols, input.check, env)
    IN  IF ro THEN <<Event("tool", 0, Throw("ToolTransactionMode", FALSE))>>
        ELSE (IF input.check THEN checks ELSE <<>>)
             \o (IF Len(available) < Len(tokenSymbols)
                 THEN <<Event("tool", 0, Throw("ToolMarketsNotAvailable", FALSE))>>
                 ELSE IF cTokenAddresses = <<>> THEN <<>>
                 ELSE Scoped("agent", 0, enterMarkets(net, ro, cTokenAddresses)))

\* kilolend_approve_token; input.spender is "" when no spender_address is given
ApproveTokenTool(net, ro, input, env) ==
    LET tokenSymbol == toUpperCase(input.symbol)
        cTokenAddress == ContractAt(net, CKey(tokenSymbol))
        spenderAddress == IF input.spender # "" THEN input.spender ELSE cTokenAddress.value
    IN  IF ro THEN <<Event("tool", 0, Throw("ToolTransactionMode", FALSE))>>
        ELSE IF input.spender = "" /\ ~cTokenAddress.defined
        THEN <<Event("tool", 0, Throw("ToolMarketNotAvailable", FALSE))>>
        ELSE Scoped("agent", 0, approveToken(net, ro, tokenSymbol, spenderAddress, input.amount))

\* the plan of the tool handler of invocation p, given what its reads returned
ToolPlanOf(net, ro, p) ==
    CASE p.op = "supplyTool" -> SupplyToMarketTool(net, ro, p.input, p.env)
      [] p.op = "borrowTool" -> BorrowFromMarketTool(net, ro, p.input, p.env)
      [] p.op = "redeemUnderlyingTool" -> RedeemUnderlyingTool(net, ro, p.input, p.env)
      [] p.op = "enterMarketTool" -> EnterMarketTool(net, ro, p.input, p.env)
      [] p.op = "approveTool" -> ApproveTokenTool(net, ro, p.input, p.env)

\* the plan of the agent operation of invocation p
OperationPlanOf(net, ro, p) ==
    CASE p.op = "approveToken" ->
            Scoped("agent", 0, approveToken(net, ro, p.input.symbol, p.input.spender, p.input.amount))
      [] p.op = "supplyToMarket" ->
            Scoped("agent", 0, supplyToMarket(net, ro, p.input.symbol, p.input.amount.text, p.env))

\* the variable of the handler a returned value is assigned to
Observe(env, e, answer) ==
    CASE e.call.fn = "getAssetsIn" /\ e.scope = "agent" -> [env EXCEPT !.assetsIn = answer.assets]
      [] e.call.fn = "getAssetsIn" /\ e.scope = "membership" ->
            [env EXCEPT !.members[e.index] = answer.assets]
      [] e.call.fn = "allowance" /\ e.scope = "agent" -> [env EXCEPT !.allowance = answer.amount]
      [] e.call.fn \in {"balanceOf", "getBalance"} /\ e.scope = "balance" ->
            [env EXCEPT !.toolBalance = answer.amount]
      [] e.call.fn = "exchangeRateStored" -> [env EXCEPT !.exchangeRate = answer.amount]
      [] e.call.fn = "getAccountLiquidity" -> [env EXCEPT !.liquidity = answer.info]
      [] OTHER -> env

\* the first position after the try block of position pc
AfterScope(plan, pc) ==
    LET later == {j \in (pc + 1)..Len(plan) :
                     plan[j].scope # plan[pc].scope \/ plan[j].index # plan[pc].index}
    IN  IF later = {} THEN Len(plan) + 1 ELSE CHOOSE j \in later : \A k \in later : j <= k

\* the handler runs on to its next chain-client call: a throw in a swallowing
\* try block that is not thrown again leaves the block, any other throw
\* settles the invocation with its error
RECURSIVE Settled(_, _)
Settled(plan, p) ==
    IF p.pc > Len(plan) THEN [p EXCEPT !.status = "done"]
    ELSE LET e == plan[p.pc]
         IN  IF e.call.ev # "throw"
             THEN [p EXCEPT !.status = "waiting", !.next = e, !.after = AfterScope(plan, p.pc)]
             ELSE IF e.scope \in Swallowing /\ e.call.error \notin Rethrown
             THEN Settled(plan, [p EXCEPT !.pc = AfterScope(plan, p.pc)])
             ELSE [p EXCEPT !.status = "done",
                            !.error = IF e.call.inTry THEN handleContractError(e.call.error)
                                      ELSE e.call.error]

(***************************************************************************)
(* The chain.                                                              *)
(***************************************************************************)
\* allowance(owner, spender) of a token for the wallet
AllowanceOf(l, token, spender) ==
    LET given == {a \in l.approved : a.token = token /\ a.spender = spender}
    IN  IF given = {} THEN l.base ELSE (CHOOSE a \in given : TRUE).amount

\* the effect of a mined transaction: enterMarkets adds its markets to the
\* entered list, approve sets the allowance of its spender
Mined(l, tx) ==
    CASE tx.fn = "enterMarkets" ->
            [l EXCEPT !.entered = l.entered \cup {tx.markets[j] : j \in 1..Len(tx.markets)}]
      [] tx.fn = "approve" ->
            [l EXCEPT !.approved =
                {a \in l.approved : ~(a.token = tx.to /\ a.spender = tx.spender)}
                \cup {[token |-> tx.to, spender |-> tx.spender, amount |-> tx.amount]}]
      [] OTHER -> l

\* mutant: a transaction equal to one that waits for its mining is not
\* broadcast a second time
BroadcastOnce(l, call) ==
    IF call.ev = "write" /\ call.fn \in {"enterMarkets", "approve"}
       /\ \A j \in 1..Len(l.pending) : l.pending[j] # call
    THEN [l EXCEPT !.pending = Append(l.pending, call)]
    ELSE l

\* a broadcast transaction waits for its mining when the ledger tracks its effect
Broadcast(l, call) ==
    IF call.ev = "write" /\ call.fn \in {"enterMarkets", "approve"}
    THEN [l EXCEPT !.pending = Append(l.pending, call)]
    ELSE l

\* whole tokens a balance read may return
HeldUnits == {0, 5}

\* the decimals of the contract at an address: a token of the table, or a cToken
DecimalsAt(net, address) ==
    LET AddressIs(t) == t.address = address
        token == Find(getTokenConfigs(net), AddressIs)
    IN  IF token.defined THEN token.value.decimals ELSE 8

\* the account summaries the liquidity read of the borrow tool may return: a
\* liquidity of 1 or 0, with a health factor of 5, of 1 or the 999 of an
\* account without borrow
LiquiditySummaries ==
    {[liquidity |-> l, healthFactor |-> h] :
        l \in {NumInt(1), NumZero}, h \in {NumInt(5), NumInt(1), NumInt(999)}}

ChainAnswer(assets, amount, info) == [assets |-> assets, amount |-> amount, info |-> info]

\* what the chain may return to a call that is not rejected
AnswersTo(net, l, call) ==
    CASE call.fn = "getAssetsIn" -> {ChainAnswer(l.entered, NoAmount, NoAnswers.liquidity)}
      [] call.fn = "allowance" ->
            {ChainAnswer({}, AllowanceOf(l, call.to, call.spender), NoAnswers.liquidity)}
      [] call.fn = "balanceOf" ->
            {ChainAnswer({}, Units(n, DecimalsAt(net, call.to)), NoAnswers.liquidity) : n \in HeldUnits}
      [] call.fn = "getBalance" ->
            {ChainAnswer({}, Units(n, 18), NoAnswers.liquidity) : n \in HeldUnits}
      [] call.fn = "exchangeRateStored" ->
            {ChainAnswer({}, BigMulInt(Pow10(9 + getTokenDecimals(net, MarketSymbolOf(net, call.to))), 2),
                         NoAnswers.liquidity)}
      [] call.fn = "getAccountLiquidity" ->
            {ChainAnswer({}, NoAmount, r) : r \in LiquiditySummaries}
      [] OTHER -> {ChainAnswer({}, NoAmount, NoAnswers.liquidity)}

(***************************************************************************)
(* One tool invocation against the chain, and two concurrent invocations   *)
(* of the agent, as state machines.                                        *)
(***************************************************************************)
\* the chain before the invocation: none or the first markets of the table
\* entered, and no or an unlimited allowance for every spender
InitialLedgers(net) ==
    LET cs == getCTokenAddresses(net)
    IN  {[entered |-> {cs[j].address : j \in 1..n}, base |-> b, approved |-> {}, pending |-> <<>>,
          mined |-> 0] :
            n \in 0..MaxEntered, b \in {BigZero, MaxUint256}}

\* the symbols handed to the tools: the first token as written and in lower
\* case, the native currency, the staked token under its token and its
\* market spelling, and a symbol that names nothing
ToolSymbols(net) ==
    LET first == getTokenConfigs(net)[1].symbol
    IN  {first, toLowerCase(first), nativeCurrency(net), <<"F","O","O">>}
        \cup ({stKAIA, StKAIA} \cap (TokenSymbols(net) \cup MarketSymbols(net)))

\* the amounts handed to the tools
ToolAmounts == {<<"1">>}

\* the requests to enter markets: up to MaxRequested symbols among the first
\* token, upper or lower case, the native currency and an unknown symbol
SymbolLists(net) ==
    LET first == getTokenConfigs(net)[1].symbol
        S == {first, toLowerCase(first), nativeCurrency(net), <<"F","O","O">>}
    IN  UNION {[1..n -> S] : n \in 1..MaxRequested}

ToolInit ==
    /\ network \in Networks
    /\ config \in {NoConfig, [kind |-> "string", privateKey |-> "valid", mode |-> "absent"]}
    /\ isReadonly = Constructor(config)
    /\ last = Idle
    /\ trace = <<>>
    /\ rIn = <<>>
    /\ rOut = Undefined
    /\ rOut2 = Undefined
    /\ query = NoQuery
    /\ reply = NoReply
    /\ ledger \in InitialLedgers(network)
    /\ running = [i \in Invocations |-> NoInvocation]

\* invocation i is called
Call(i, op, input) ==
    /\ running[i].status = "idle"
    /\ running' = [running EXCEPT ![i] =
                      [NoInvocation EXCEPT !.op = op, !.input = input, !.pc = 1, !.status = "ready"]]
    /\ UNCHANGED <<network, config, isReadonly, last, trace, rIn, rOut, rOut2, query, reply, ledger>>

SupplyTool ==
    \E sym \in ToolSymbols(network), a \in ToolAmounts,
       flags \in {<<TRUE, TRUE>>, <<TRUE, FALSE>>, <<FALSE, TRUE>>} :
        Call(1, "supplyTool",
             [NoInput EXCEPT !.symbol = sym, !.amount = Given(a), !.check = flags[1],
                             !.autoApprove = flags[2]])

BorrowTool ==
    \E sym \in ToolSymbols(network), a \in ToolAmounts, check \in BOOLEAN :
        Call(1, "borrowTool", [NoInput EXCEPT !.symbol = sym, !.amount = Given(a), !.check = check])

RedeemUnderlyingToolCall ==
    \E sym \in ToolSymbols(network), a \in ToolAmounts, check \in BOOLEAN :
        Call(1, "redeemUnderlyingTool",
             [NoInput EXCEPT !.symbol = sym, !.amount = Given(a), !.check = check])

EnterMarketToolCall ==
    \E syms \in SymbolLists(network), check \in BOOLEAN :
        Call(1, "enterMarketTool", [NoInput EXCEPT !.symbols = syms, !.check = check])

ApproveTokenToolCall ==
    \E sym \in ToolSymbols(network), a \in {NoAmountGiven, Given(<<"1">>)},
       sp \in {"", getCTokenAddresses(network)[1].address} :
        Call(1, "approveTool", [NoInput EXCEPT !.symbol = sym, !.amount = a, !.spender = sp])

\* the tool handler of invocation 1 runs on to its next chain-client call
RunTool ==
    /\ running[1].status = "ready"
    /\ running' = [running EXCEPT ![1] =
                      Settled(ToolPlanOf(network, isReadonly, running[1]), running[1])]
    /\ UNCHANGED <<network, config, isReadonly, last, trace, rIn, rOut, rOut2, query, reply, ledger>>

\* the agent operation of invocation i runs on to its next chain-client call
RunOperation(i) ==
    /\ running[i].status = "ready"
    /\ running' = [running EXCEPT ![i] =
                      Settled(OperationPlanOf(network, isReadonly, running[i]), running[i])]
    /\ UNCHANGED <<network, config, isReadonly, last, trace, rIn, rOut, rOut2, query, reply, ledger>>

\* the chain-client call invocation i waits for goes through: a read returns
\* what the chain holds, a transaction is accepted for broadcast
Proceed(i) ==
    /\ running[i].status = "waiting"
    /\ LET p == running[i]
       IN  \E answer \in AnswersTo(network, ledger, p.next.call) :
              /\ running' = [running EXCEPT ![i] =
                                [p EXCEPT !.env = Observe(p.env, p.next, answer),
                                          !.pc = p.pc + 1,
                                          !.calls = Append(p.calls, p.next),
                                          !.status = "ready", !.next = NoEvent, !.after = 0]]
              /\ ledger' = Broadcast(ledger, p.next.call)
    /\ UNCHANGED <<network, config, isReadonly, last, trace, rIn, rOut, rOut2, query, reply>>

\* the chain-client call invocation i waits for is rejected
Fail(i) ==
    /\ running[i].status = "waiting"
    /\ LET p == running[i]
           made == Append(p.calls, [p.next EXCEPT !.call.error = "rejected"])
       IN  running' = [running EXCEPT ![i] =
                          IF p.next.scope \in Swallowing
                          THEN [p EXCEPT !.pc = p.after, !.calls = made,
                                         !.status = "ready", !.next = NoEvent, !.after = 0]
                          ELSE [p EXCEPT !.calls = made, !.status = "done",
                                         !.error = handleContractError("Rpc"),
                                         !.next = NoEvent, !.after = 0]]
    /\ UNCHANGED <<network, config, isReadonly, last, trace, rIn, rOut, rOut2, query, reply, ledger>>

\* the oldest pending transaction of the wallet is mined
Mine ==
    /\ ledger.pending # <<>>
    /\ ledger' = [Mined(ledger, Head(ledger.pending)) EXCEPT !.pending = Tail(ledger.pending),
                                                              !.mined = ledger.mined + 1]
    /\ UNCHANGED <<network, config, isReadonly, last, trace, rIn, rOut, rOut2, query, reply, running>>

ToolNext ==
    \/ SupplyTool
    \/ BorrowTool
    \/ RedeemUnderlyingToolCall
    \/ EnterMarketToolCall
    \/ ApproveTokenToolCall
    \/ RunTool
    \/ Proceed(1)
    \/ Fail(1)
    \/ Mine

ToolSpec == ToolInit /\ [][ToolNext]_vars

\* two invocations of the agent, of approveToken or supplyToMarket for the
\* first token and its market, are in flight together
ConcurrentApprove(i) ==
    \E a \in {NoAmountGiven, Given(<<"1">>)} :
        Call(i, "approveToken",
             [NoInput EXCEPT !.symbol = getTokenConfigs(network)[1].symbol, !.amount = a,
                             !.spender = getCTokenAddresses(network)[1].address])

ConcurrentSupply(i) ==
    Call(i, "supplyToMarket",
         [NoInput EXCEPT !.symbol = getTokenConfigs(network)[1].symbol, !.amount = Given(<<"1">>)])

ConcurrentNext ==
    \/ \E i \in Invocations : ConcurrentApprove(i)
    \/ \E i \in Invocations : ConcurrentSupply(i)
    \/ \E i \in Invocations : RunOperation(i)
    \/ \E i \in Invocations : Proceed(i)
    \/ \E i \in Invocations : Fail(i)
    \/ Mine

ConcurrentSpec == ToolInit /\ [][ConcurrentNext]_vars

(***************************************************************************)
(* Properties.                                                             *)
(***************************************************************************)
\* the chain-client calls of the invocation that went through
Sent == SelectSeq(trace, LAMBDA e : e.ev = "write" /\ e.error = "")

\* positions in trace of the submitted transactions named fn
SentAt(fn) == {i \in 1..Len(trace) : trace[i].ev = "write" /\ trace[i].error = "" /\ trace[i].fn = fn}

MutatingOps ==
    {"sendNativeToken", "sendERC20Token", "approveToken", "enterMarkets", "supplyToMarket",
     "borrowFromMarket", "repayBorrow", "redeemTokens", "redeemUnderlying"}

\* C1: a mutating operation on an agent built without a private key, or with
\* mode 'readonly', fails with the transaction-mode error and has made no
\* chain-client call at all
C1_ReadonlyFailsBeforeAnyCall ==
    (last.op \in MutatingOps
       /\ (config.kind = "none" \/ config.privateKey \in {"absent", "empty"} \/ config.mode = "readonly"))
    => (last.error = "TransactionMode" /\ Len(trace) = 0)

\* a supply was invoked on an agent built from {privateKey, mode: 'readonly'}
C1_Witness ==
    /\ last.op = "supplyToMarket"
    /\ config.privateKey = "valid"
    /\ config.mode = "readonly"
    /\ last.error = "TransactionMode"

\* positions in trace of the transactions named fn handed to the wallet client,
\* accepted or rejected
AttemptsAt(fn) == {i \in 1..Len(trace) : trace[i].ev = "write" /\ trace[i].fn = fn}

ReadsAt(fn) == {i \in 1..Len(trace) : trace[i].ev = "read" /\ trace[i].fn = fn}

\* the market contract of the active network's native currency
NativeMarket == CTokenAddressAt(network, nativeCurrency(network)).value

\* the token-table entry of the underlying of the market at address m: the
\* token whose symbol is the market key without its prefix, letter case ignored
UnderlyingOf(m) ==
    LET market == CHOOSE c \in {getCTokenAddresses(network)[i] : i \in 1..Len(getCTokenAddresses(network))} :
                      c.address = m
    IN  CHOOSE t \in {getTokenConfigs(network)[i] : i \in 1..Len(getTokenConfigs(network))} :
            toLowerCase(t.symbol) = toLowerCase(market.symbol)

\* text is digits with at most one '.', e.g. "1", "0", "1.5"
IsPlainDecimal(text) ==
    /\ text # <<>>
    /\ \A i \in 1..Len(text) : IsDigit(text[i]) \/ text[i] = "."
    /\ Cardinality({i \in 1..Len(text) : text[i] = "."}) <= 1
    /\ \E i \in 1..Len(text) : IsDigit(text[i])

\* the fixed-point encoding of a plain decimal with d decimals (its fraction
\* has at most d digits): the digits without the point, followed by the
\* missing zeros
Encode(text, d) ==
    LET digits == SelectSeq(text, IsDigit)
        dot == DotIndex(text)
        fractionLen == IF dot = 0 THEN 0 ELSE Len(text) - dot
    IN  [neg |-> FALSE, digits |-> StripLeadingZeros(digits \o Zeros(d - fractionLen))]

\* C2: a supply whose market is not in the entered-assets list submits exactly
\* one enterMarkets transaction, for that market and before the mint; a supply
\* whose market is in the list submits none
C2_EnterMarketsOnceBeforeMint ==
    last.op = "supplyToMarket" =>
        /\ Cardinality(AttemptsAt("enterMarkets")) <= 1
        /\ \A j \in AttemptsAt("enterMarkets") :
              /\ Len(trace[j].markets) = 1
              /\ trace[j].markets[1] \notin last.env.assetsIn
        /\ \A i \in SentAt("mint") :
              IF trace[i].to \in last.env.assetsIn
              THEN AttemptsAt("enterMarkets") = {}
              ELSE /\ Cardinality(SentAt("enterMarkets")) = 1
                   /\ \A j \in SentAt("enterMarkets") :
                         j < i /\ trace[j].markets = <<trace[i].to>>

\* a supply on a market outside a non-empty entered list went through, with
\* enterMarkets first
C2_Witness ==
    /\ last.op = "supplyToMarket"
    /\ last.error = "none"
    /\ SentAt("mint") # {}
    /\ last.env.assetsIn # {}
    /\ SentAt("enterMarkets") # {}

\* C3: a supply on an ERC20-backed market whose allowance is below the encoded
\* amount submits exactly one approve, of 2^256-1, on the underlying token
\* with the market as spender, before the mint; with allowance >= amount it
\* submits no approve; a supply on the native market reads no allowance and
\* submits no approve
C3_ApproveMaxOnceBeforeMint ==
    last.op = "supplyToMarket" =>
        \A i \in SentAt("mint") :
            IF trace[i].to = NativeMarket
            THEN ReadsAt("allowance") = {} /\ AttemptsAt("approve") = {}
            ELSE /\ \E r \in ReadsAt("allowance") :
                       /\ r < i
                       /\ trace[r].to = UnderlyingOf(trace[i].to).address
                       /\ trace[r].spender = trace[i].to
                 /\ IF BigLess(last.env.allowance, trace[i].amount)
                    THEN /\ Cardinality(SentAt("approve")) = 1
                         /\ \A j \in SentAt("approve") :
                               /\ j < i
                               /\ trace[j].amount = MaxUint256
                               /\ trace[j].spender = trace[i].to
                               /\ trace[j].to = UnderlyingOf(trace[i].to).address
                    ELSE AttemptsAt("approve") = {}

\* a supply of 1.5 units on an ERC20 market with allowance of 1 unit went
\* through with an approve
C3_Witness ==
    /\ last.op = "supplyToMarket"
    /\ last.error = "none"
    /\ last.env.allowance = Pow10(6)
    /\ SentAt("approve") # {}
    /\ \E i \in SentAt("mint") : trace[i].amount = Encode(<<"1",".","5">>, 6)

\* the input symbol names no token and no market of the active network, letter
\* case and surrounding blanks ignored
NamesNothing(symbol) ==
    \A x \in TokenSymbols(network) \cup MarketSymbols(network) :
        toLowerCase(trim(symbol)) # toLowerCase(x)

MarketOps ==
    {"supplyToMarket", "borrowFromMarket", "repayBorrow", "redeemTokens", "redeemUnderlying"}

\* C4: supply, borrow, repay and the two redeems, given a symbol that matches
\* no token symbol and no market key of the active network, fail with 'Market
\* not available' and hand no transaction to the wallet client
C4_UnknownSymbolFailsMarketNotAvailable ==
    (last.op \in MarketOps /\ ~isReadonly /\ NamesNothing(last.symbol))
    => (last.error = "MarketNotAvailable" /\ \A i \in 1..Len(trace) : trace[i].ev # "write")

\* C5: resolveTokenSymbol returns the token-table symbol T for every spelling
\* of T that differs in letter case only, and resolving its result again gives
\* the same result, on every network
C5_ResolveCaseInsensitiveIdempotent ==
    /\ rOut.defined =>
          \A T \in TokenSymbols(network) :
              (Len(rIn) = Len(T) /\ toLowerCase(rIn) = toLowerCase(T)) => rOut.value = T
    /\ rOut2.defined => rOut2.value = rOut.value

\* a spelling that differs from the token symbol was resolved to it, twice
C5_Witness ==
    /\ rOut2.defined
    /\ rOut.value \in TokenSymbols(network)
    /\ rIn # rOut.value
    /\ Len(rIn) = Len(rOut.value)

AmountOps ==
    {"sendNativeToken", "sendERC20Token", "approveToken", "supplyToMarket",
     "borrowFromMarket", "repayBorrow", "redeemTokens", "redeemUnderlying"}

\* the text is a plain decimal greater than zero
IsPositiveDecimal(text) ==
    IsPlainDecimal(text) /\ \E i \in 1..Len(text) : IsDigit(text[i]) /\ text[i] # "0"

\* C6: an amount-taking mutating operation given a malformed or not strictly
\* positive amount fails without any chain read or transaction submission
\* (the empty text, which the optional-amount operations read as no amount, is
\* left out)
C6_BadAmountRejectedBeforeAnyCall ==
    (last.op \in AmountOps /\ ~isReadonly /\ last.amount.given
       /\ last.amount.text # <<>> /\ ~IsPositiveDecimal(last.amount.text))
    => (last.error # "none" /\ Len(trace) = 0)

\* the invocation failed on a validation or balance error: an error of these
\* classes, or the rejection of a malformed or negative amount
FailedOnValidationOrBalance ==
    \/ last.error \in ValidationErrors \cup {"InsufficientBalance"}
    \/ last.thrown \in {"InvalidDecimalNumber", "IntegerOutOfRange"}

\* C7: a supply that fails with a validation or balance error has submitted no
\* transaction
C7_FailedSupplyLeavesNoTransaction ==
    (last.op = "supplyToMarket" /\ FailedOnValidationOrBalance) => Len(Sent) = 0

\* C8: redeemTokens compares the cToken balance with the amount encoded with 8
\* decimals, whatever the decimals of the underlying: above the balance it
\* fails with the insufficient-balance error and hands over no transaction,
\* otherwise it hands over exactly one transaction, redeem(amount)
C8_RedeemTokensChecksBalanceWith8Decimals ==
    (/\ last.op = "redeemTokens"
     /\ IsPlainDecimal(last.amount.text)
     /\ \E r \in ReadsAt("balanceOf") : trace[r].error = "")
    => LET amount8 == Encode(last.amount.text, 8)
           writes == {i \in 1..Len(trace) : trace[i].ev = "write"}
       IN  IF BigLess(last.env.balance, amount8)
           THEN last.error = "InsufficientBalance" /\ writes = {}
           ELSE /\ Cardinality(writes) = 1
                /\ \A i \in writes : /\ trace[i].fn = "redeem"
                                     /\ trace[i].amount = amount8
                                     /\ trace[i].value = NoAmount
                                     /\ (trace[i].error = "" => last.error = "none")

\* 1.5 cTokens of a market whose underlying has 6 decimals were asked for with
\* a balance of 1 cToken, and refused
C8_Witness ==
    /\ last.op = "redeemTokens"
    /\ last.amount.text = <<"1",".","5">>
    /\ last.env.balance = Pow10(8)
    /\ last.error = "InsufficientBalance"
    /\ \E r \in ReadsAt("balanceOf") :
          trace[r].error = "" /\ UnderlyingOf(trace[r].to).decimals = 6

\* C9: the mint handed over by supplyToMarket is mint() with the encoded amount
\* as value on the native market, and mint(encoded amount) without value on
\* every other market
C9_MintShapeFollowsNativeness ==
    last.op = "supplyToMarket" =>
        \A i \in AttemptsAt("mint") :
            IF trace[i].to = NativeMarket
            THEN /\ trace[i].amount = NoAmount
                 /\ trace[i].value = Encode(last.amount.text, 18)
            ELSE /\ trace[i].value = NoAmount
                 /\ trace[i].amount = Encode(last.amount.text, UnderlyingOf(trace[i].to).decimals)

\* one unit of the native currency was supplied on a network other than kaia
C9_Witness ==
    /\ last.op = "supplyToMarket"
    /\ network # "kaia"
    /\ \E i \in SentAt("mint") :
          /\ trace[i].to = NativeMarket
          /\ trace[i].value = Pow10(18)
          /\ trace[i].amount = NoAmount

\* C10: the repayBorrow handed over by repayBorrow is repayBorrow() with the
\* amount as value on the native market, with no allowance read and no
\* approve, and repayBorrow(amount) without value on every other market
C10_RepayShapeFollowsNativeness ==
    last.op = "repayBorrow" =>
        \A i \in AttemptsAt("repayBorrow") :
            IF trace[i].to = NativeMarket
            THEN /\ trace[i].amount = NoAmount
                 /\ trace[i].value # NoAmount
                 /\ ReadsAt("allowance") = {}
                 /\ AttemptsAt("approve") = {}
            ELSE /\ trace[i].value = NoAmount
                 /\ trace[i].amount # NoAmount

\* C11: approveToken without an amount approves exactly 2^256-1 and
\* repayBorrow without an amount repays exactly 2^256-1; neither reads a token
\* balance or a borrow balance (repayBorrow reads the allowance only)
C11_AbsentAmountIsMaxUint256 ==
    /\ (last.op = "approveToken" /\ ~last.amount.given) =>
          /\ \A i \in 1..Len(trace) : trace[i].ev # "read"
          /\ \A i \in AttemptsAt("approve") : trace[i].amount = MaxUint256
    /\ (last.op = "repayBorrow" /\ ~last.amount.given) =>
          /\ \A i \in 1..Len(trace) : trace[i].ev = "read" => trace[i].fn = "allowance"
          /\ \A i \in AttemptsAt("approve") : trace[i].amount = MaxUint256
          /\ \A i \in AttemptsAt("repayBorrow") :
                IF trace[i].to = NativeMarket /\ trace[i].amount = NoAmount
                THEN trace[i].value = MaxUint256
                ELSE trace[i].amount = MaxUint256

\* a repay without an amount went through on an ERC20-backed market, after an
\* approve without an amount, both with 2^256-1
C11_Witness ==
    /\ last.op = "repayBorrow"
    /\ ~last.amount.given
    /\ \E i \in SentAt("approve"), j \in SentAt("repayBorrow") :
          /\ i < j
          /\ trace[i].amount = MaxUint256
          /\ trace[j].amount = MaxUint256

NoAutoEnterOps == {"borrowFromMarket", "repayBorrow", "redeemTokens", "redeemUnderlying"}

\* C12: borrowFromMarket, repayBorrow, redeemTokens and redeemUnderlying never
\* read market membership and never hand over an enterMarkets transaction
C12_OnlySupplyAutoEnters ==
    last.op \in NoAutoEnterOps =>
        ReadsAt("getAssetsIn") = {} /\ AttemptsAt("enterMarkets") = {}

\* a borrow went through for a caller who has entered no market
C12_Witness ==
    /\ last.op = "borrowFromMarket"
    /\ last.env.assetsIn = {}
    /\ SentAt("borrow") # {}
    /\ Len(trace) = 1

EncodingOps == {"supplyToMarket", "borrowFromMarket", "repayBorrow", "redeemUnderlying"}

\* C20: when an accepted input symbol leads to an ERC20-backed market, the
\* decimals come from the token-table entry of the resolved symbol and the
\* default of 18 is not applied
C20_DefaultDecimalsOnlyForNative ==
    (last.op \in EncodingOps /\ ~isReadonly /\ ~NamesNothing(last.symbol)) =>
        LET canonicalSymbol == getCanonicalSymbolForCToken(network, last.symbol)
            cTokenAddress == CTokenAddressAt(network, canonicalSymbol)
        IN  (cTokenAddress.defined /\ cTokenAddress.value # NativeMarket)
                => hasTokenEntry(network, canonicalSymbol)

\* the reads of the invocation sent to address that were answered
AnsweredBy(address) ==
    {i \in 1..Len(trace) : trace[i].ev = "read" /\ trace[i].to = address /\ trace[i].error = ""}

\* the read fn sent to address was answered
Answered(fn, address) == \E i \in AnsweredBy(address) : trace[i].fn = fn

\* C13: getAllMarkets does not fail on failing markets: it returns, in the
\* order of the contract table, one entry for each market whose six reads
\* were all answered, and no entry for any other market
C13_AllMarketsSkipsFailingMarkets ==
    query.op = "getAllMarkets" =>
        LET good == SelectSeq(getCTokenAddresses(network),
                              LAMBDA c : Cardinality(AnsweredBy(c.address)) = 6)
        IN  /\ reply.kind = "ok"
            /\ Len(reply.markets) = Len(good)
            /\ \A i \in 1..Len(good) :
                  /\ reply.markets[i].cTokenAddress = good[i].address
                  /\ reply.markets[i].underlyingSymbol = good[i].symbol

\* a market that is neither the first nor the last of the table had a
\* rejected read, and all the others were returned
C13_Witness ==
    /\ query.op = "getAllMarkets"
    /\ reply.kind = "ok"
    /\ Len(getCTokenAddresses(network)) > 2
    /\ query.chain.failing = {getCTokenAddresses(network)[2].address}
    /\ Len(reply.markets) = Len(getCTokenAddresses(network)) - 1

\* C14: when the comptroller answers getAccountLiquidity with a nonzero error
\* code, the call fails, and it has made no getAssetsIn read and no position
\* read
C14_ComptrollerErrorIsFatal ==
    (/\ query.op = "getAccountLiquidity"
     /\ Answered("getAccountLiquidity", Comptroller(network))
     /\ query.chain.account.error # 0)
    => /\ reply.kind = "error"
       /\ Len(trace) = 1

\* the comptroller answered with an error code for an account that has
\* entered markets
C14_Witness ==
    /\ query.op = "getAccountLiquidity"
    /\ Answered("getAccountLiquidity", Comptroller(network))
    /\ query.chain.account.error # 0
    /\ Len(query.chain.assetsIn) = MaxPositions
    /\ reply.kind = "error"

\* the sum of a sequence of numbers, added from the left
RECURSIVE SumOf(_)
SumOf(xs) ==
    IF xs = <<>> THEN NumZero
    ELSE NumAdd(SumOf(SubSeq(xs, 1, Len(xs) - 1)), xs[Len(xs)])

\* the comptroller answered both of its reads and reported no error
ComptrollerAnswered ==
    /\ query.op = "getAccountLiquidity"
    /\ Answered("getAccountLiquidity", Comptroller(network))
    /\ query.chain.account.error = 0
    /\ Answered("getAssetsIn", Comptroller(network))

\* C15: an entered market whose position fetch fails, by a rejected read or
\* by a nonzero snapshot error code, is skipped and the call still returns: the
\* positions are the entered markets whose fetch succeeded, in their order,
\* and the two totals are the sums over these positions
C15_FailedPositionsAreSkipped ==
    ComptrollerAnswered =>
        LET fetched == SelectSeq(query.chain.assetsIn,
                                 LAMBDA a : /\ Cardinality(AnsweredBy(a)) = 2
                                            /\ query.chain.position[a].error = 0)
        IN  /\ reply.kind = "ok"
            /\ Len(reply.positions) = Len(fetched)
            /\ \A i \in 1..Len(fetched) : reply.positions[i].cTokenAddress = fetched[i]
            /\ NumEq(reply.totalCollateralUSD,
                     SumOf([i \in 1..Len(reply.positions) |-> reply.positions[i].supplyValueUSD]))
            /\ NumEq(reply.totalBorrowUSD,
                     SumOf([i \in 1..Len(reply.positions) |-> reply.positions[i].borrowValueUSD]))

\* of two entered markets the first answered a snapshot error code, and the
\* second one's position makes the totals
C15_Witness ==
    /\ ComptrollerAnswered
    /\ Len(query.chain.assetsIn) = 2
    /\ query.chain.position[query.chain.assetsIn[1]].error # 0
    /\ Len(reply.positions) = 1
    /\ reply.positions[1].cTokenAddress = query.chain.assetsIn[2]
    /\ NumGreater(reply.totalCollateralUSD, NumZero)
    /\ NumGreater(reply.totalBorrowUSD, NumZero)

\* C16: the healthFactor of a returned summary is 999 when totalBorrowUSD is
\* 0 and the quotient totalCollateralUSD / totalBorrowUSD otherwise; it is
\* never Infinity or NaN
C16_HealthFactorSentinel ==
    (query.op = "getAccountLiquidity" /\ reply.kind = "ok") =>
        /\ reply.healthFactor.kind = "finite"
        /\ IF NumEq(reply.totalBorrowUSD, NumZero)
           THEN NumEq(reply.healthFactor, NumInt(999))
           ELSE NumEq(NumMul(reply.healthFactor, reply.totalBorrowUSD), reply.totalCollateralUSD)

\* a summary with collateral and no borrow
C16_Witness ==
    /\ query.op = "getAccountLiquidity"
    /\ reply.kind = "ok"
    /\ NumGreater(reply.totalCollateralUSD, NumZero)
    /\ NumEq(reply.totalBorrowUSD, NumZero)
    /\ NumEq(reply.healthFactor, NumInt(999))

\* the entries of a returned market list, each with what its contract returned
ReturnedMarkets ==
    IF query.op = "getAllMarkets" /\ reply.kind = "ok"
    THEN {[entry |-> reply.markets[i], data |-> query.chain.market[reply.markets[i].cTokenAddress]] :
            i \in 1..Len(reply.markets)}
    ELSE {}

\* the text with two decimals of floor(ratePerBlock * perYear * 10000 / 10^18) / 100
FlooredApy(ratePerBlock, perYear) ==
    LET hundredths == BigDivPow10(BigMul(BigMulInt(ratePerBlock, perYear), Pow10(4)), 18)
        ds == padStart(hundredths.digits, 3)
    IN  SubSeq(ds, 1, Len(ds) - 2) \o <<".">> \o SubSeq(ds, Len(ds) - 1, Len(ds))

\* C17: supplyApy and borrowApy of every returned market are
\* floor(ratePerBlock * blocksPerYear * 10000 / 10^18) / 100 with the
\* blocksPerYear of the active network (15768000 on kaia, 6307200 on kub,
\* 39420000 on etherlink); a rate of 0 gives 0.00, and on kaia the rate of 5%
\* per year gives 5.00 to within one hundredth
C17_ApyUsesNetworkBlocksPerYear ==
    \A m \in ReturnedMarkets :
        LET perYear == CASE network = "kaia" -> 15768000
                         [] network = "kub" -> 6307200
                         [] network = "etherlink" -> 39420000
            fivePercent == {FivePercentFloor, FivePercentCeil}
            aboutFive == {<<"4",".","9","9">>, <<"5",".","0","0">>}
        IN  /\ m.entry.supplyApy = FlooredApy(m.data.supplyRatePerBlock, perYear)
            /\ m.entry.borrowApy = FlooredApy(m.data.borrowRatePerBlock, perYear)
            /\ m.data.supplyRatePerBlock = BigZero => m.entry.supplyApy = <<"0",".","0","0">>
            /\ m.data.borrowRatePerBlock = BigZero => m.entry.borrowApy = <<"0",".","0","0">>
            /\ (network = "kaia" /\ m.data.supplyRatePerBlock \in fivePercent)
                  => m.entry.supplyApy \in aboutFive
            /\ (network = "kaia" /\ m.data.borrowRatePerBlock \in fivePercent)
                  => m.entry.borrowApy \in aboutFive

\* on kub a market is returned whose supply rate is the 5% rate of kaia and
\* whose borrow rate is 0
C17_Witness ==
    /\ network = "kub"
    /\ \E m \in ReturnedMarkets :
          /\ m.data.supplyRatePerBlock = FivePercentFloor
          /\ m.entry.supplyApy = <<"1",".","9","9">>
          /\ m.data.borrowRatePerBlock = BigZero
          /\ m.entry.borrowApy = <<"0",".","0","0">>

\* C18: the utilization of every returned market is 0 when totalSupply or
\* the exchange rate is 0, whatever totalBorrows is, and
\* totalBorrows / (totalSupply * exchangeRate) * 100 otherwise; it is never
\* the outcome of a division by zero
C18_UtilizationZeroWithoutSupply ==
    \A m \in ReturnedMarkets :
        LET tokenDecimals == getTokenDecimals(network, m.entry.underlyingSymbol)
            totalSupply == NumDivPow10(NumberOf(m.data.totalSupply), tokenDecimals)
            totalBorrows == NumDivPow10(NumberOf(m.data.totalBorrows), tokenDecimals)
            exchangeRate == NumDivPow10(NumberOf(m.data.exchangeRate), 18)
        IN  /\ m.entry.utilizationRate # toFixed(Infinity, 2)
            /\ m.entry.utilizationRate # toFixed(NaN, 2)
            /\ IF m.data.totalSupply = BigZero \/ m.data.exchangeRate = BigZero
               THEN m.entry.utilizationRate = <<"0",".","0","0">>
               ELSE m.entry.utilizationRate =
                        toFixed(NumMul(NumDiv(totalBorrows, NumMul(totalSupply, exchangeRate)),
                                       NumInt(100)), 2)

\* a returned market has borrows and no supply
C18_Witness ==
    \E m \in ReturnedMarkets :
        /\ m.data.totalSupply = BigZero
        /\ m.data.totalBorrows # BigZero
        /\ m.entry.utilizationRate = <<"0",".","0","0">>

\* a read operation was called while the price service threw or answered
\* without success
PriceFeedFailed == query.op # "none" /\ query.api.outcome # "ok"

\* C19: a failure of the price feed fails no read operation: getAllMarkets,
\* getAccountLiquidity and getWalletInfo still return whenever their chain
\* reads allow it, and in what they return every price and every USD value
\* is 0
C19_PriceFailureIsNotFatal ==
    PriceFeedFailed =>
        /\ query.op = "getAllMarkets" =>
              /\ reply.kind = "ok"
              /\ \A i \in 1..Len(reply.markets) : reply.markets[i].price = NumZero
        /\ query.op = "getAccountLiquidity" =>
              /\ ComptrollerAnswered => reply.kind = "ok"
              /\ reply.kind = "ok" =>
                    /\ NumEq(reply.totalCollateralUSD, NumZero)
                    /\ NumEq(reply.totalBorrowUSD, NumZero)
                    /\ \A i \in 1..Len(reply.positions) :
                          /\ NumEq(reply.positions[i].supplyValueUSD, NumZero)
                          /\ NumEq(reply.positions[i].borrowValueUSD, NumZero)
        /\ query.op = "getWalletInfo" =>
              /\ Answered("getBalance", "") => reply.kind = "ok"
              /\ reply.kind = "ok" =>
                    /\ reply.nativeBalanceUSD = <<"0",".","0","0">>
                    /\ reply.totalPortfolioUSD = <<"0",".","0","0">>
                    /\ \A i \in 1..Len(reply.tokens) :
                          /\ reply.tokens[i].price = NumZero
                          /\ reply.tokens[i].balanceUSD = <<"0",".","0","0">>

\* the price service answered without success, and the summary of an account
\* that supplies and borrows was returned
C19_Witness ==
    /\ query.op = "getAccountLiquidity"
    /\ query.api.outcome = "unsuccessful"
    /\ reply.kind = "ok"
    /\ \E i \in 1..Len(reply.positions) :
          /\ NumGreater(reply.positions[i].supplyBalance, NumZero)
          /\ NumGreater(reply.positions[i].borrowBalance, NumZero)
    /\ NumEq(reply.totalCollateralUSD, NumZero)

\* the token-table entries of the underlying token of a market of the table
UnderlyingTokenOf(symbol) ==
    {getTokenConfigs(network)[i] : i \in
        {j \in 1..Len(getTokenConfigs(network)) :
            toLowerCase(getTokenConfigs(network)[j].symbol) = toLowerCase(symbol)}}

\* C21: every returned market whose underlying token has a token-table entry
\* carries that entry's address as underlying address, and the feed price of
\* that token whenever the feed has a nonzero one
C21_MarketsUseTokenTableAndFeed ==
    \A m \in ReturnedMarkets :
        \A t \in UnderlyingTokenOf(m.entry.underlyingSymbol) :
            /\ m.entry.underlyingAddress = Def(t.address)
            /\ PriceOf(fetchPrices(network, query.api), t.symbol) # NumZero
                  => m.entry.price = PriceOf(fetchPrices(network, query.api), t.symbol)

\* C25: the healthFactor of a returned summary is the sentinel 999 only when
\* no returned position has a positive borrow balance, whatever the price
\* feed returned
C25_SentinelOnlyWithoutBorrow ==
    (query.op = "getAccountLiquidity" /\ reply.kind = "ok") =>
        ((\E i \in 1..Len(reply.positions) :
              NumGreater(reply.positions[i].borrowBalance, NumZero))
            => ~NumEq(reply.healthFactor, NumInt(999)))

\* the chain-client calls supplyToMarket makes for the inputs of the invocation
\* in progress when none of them rejects
SupplyCalls ==
    SelectSeq(supplyToMarket(network, isReadonly, last.symbol, last.amount.text, last.env),
              LAMBDA e : e.ev # "throw")

\* C29: supplyToMarket stops at the first failing step: the rejected call is
\* the last one it makes, so that a failing membership read or enterMarkets is
\* followed by no allowance read, approve or mint and a failing allowance read
\* or approve by no mint, and the caller gets an error
C29_SupplyStopsAtFirstFailure ==
    (last.op = "supplyToMarket" /\ last.failAt \in 1..Len(SupplyCalls)) =>
        /\ Len(trace) = last.failAt
        /\ trace[last.failAt].error = "rejected"
        /\ trace[last.failAt].fn = SupplyCalls[last.failAt].fn
        /\ \A i \in 1..(last.failAt - 1) :
              trace[i].error # "rejected" /\ trace[i].fn = SupplyCalls[i].fn
        /\ trace[last.failAt].fn \in {"getAssetsIn", "enterMarkets"} =>
              \A i \in 1..Len(trace) : trace[i].fn \notin {"allowance", "approve", "mint"}
        /\ trace[last.failAt].fn \in {"allowance", "approve"} =>
              \A i \in 1..Len(trace) : trace[i].fn # "mint"
        /\ last.error # "none"

\* the approve of a supply to a market not yet entered is rejected, after the
\* membership read, enterMarkets and the allowance read went through
C29_Witness ==
    /\ last.op = "supplyToMarket"
    /\ last.failAt = 4
    /\ Len(trace) = 4
    /\ trace[2].fn = "enterMarkets"
    /\ trace[4].fn = "approve"
    /\ trace[4].error = "rejected"
    /\ last.error = "ContractError"

\* the market supplyToMarket resolves the symbol of the invocation in progress to
SuppliedMarket == CTokenAddressAt(network, getCanonicalSymbolForCToken(network, last.symbol))

\* C28: a supply to a market whose address the entered list holds in whatever
\* hex casing finds the market entered and broadcasts no enterMarkets
C28_MembershipIgnoresHexCasing ==
    (/\ last.op = "supplyToMarket"
     /\ SuppliedMarket.defined
     /\ \E a \in last.env.assetsIn : LowerHex(a) = LowerHex(SuppliedMarket.value))
        => \A i \in 1..Len(trace) : trace[i].fn # "enterMarkets"


\* the approve and enterMarkets transactions of invocation p accepted for broadcast
AcceptedBy(p) ==
    SelectSeq(p.calls, LAMBDA e : e.call.ev = "write" /\ e.call.fn \in {"enterMarkets", "approve"}
                                  /\ e.call.error # "rejected")

\* the call invocation p issued after its k-th one
IssuedAfter(p, k) == IF k < Len(p.calls) THEN p.calls[k + 1].call ELSE p.next.call

\* C22: the agent does not deduplicate across invocations in flight together.
\* Every approve or enterMarkets accepted for an invocation is a transaction of
\* its own, pending or mined; an approveToken invocation that ends without
\* error has had its approve accepted; a supplyToMarket invocation that read
\* a list of entered markets without its market issues enterMarkets next, and
\* one that read an allowance below its amount issues approve next, whatever
\* the other invocation has broadcast already.
C22_NoDeduplicationAcrossInvocations ==
    /\ Len(ledger.pending) + ledger.mined
          = Len(AcceptedBy(running[1])) + Len(AcceptedBy(running[2]))
    /\ \A i \in Invocations :
          LET p == running[i]
              market == getCTokenAddresses(network)[1].address
              amountWei == parseUnits(p.input.amount.text, getTokenConfigs(network)[1].decimals).value
          IN  /\ (p.op = "approveToken" /\ p.status = "done" /\ p.error = "none")
                    => (Len(AcceptedBy(p)) = 1 /\ AcceptedBy(p)[1].call.fn = "approve"
                        /\ AcceptedBy(p)[1].call.spender = market)
              /\ (p.op = "supplyToMarket" /\ p.status \in {"waiting", "done"})
                    => \A k \in 1..Len(p.calls) :
                          LET c == p.calls[k].call
                          IN  /\ (c.fn = "getAssetsIn" /\ c.error # "rejected"
                                  /\ market \notin p.env.assetsIn)
                                    => (IssuedAfter(p, k).fn = "enterMarkets"
                                        /\ IssuedAfter(p, k).markets = <<market>>)
                              /\ (c.fn = "allowance" /\ c.error # "rejected"
                                  /\ BigLess(p.env.allowance, amountWei))
                                    => (IssuedAfter(p, k).fn = "approve"
                                        /\ IssuedAfter(p, k).spender = market)

\* two supplies in flight together have each had their enterMarkets and their
\* approve accepted, and the two approve transactions wait for their mining
C22_Witness ==
    /\ \A i \in Invocations :
          /\ running[i].op = "supplyToMarket"
          /\ Len(AcceptedBy(running[i])) = 2
          /\ AcceptedBy(running[i])[1].call.fn = "enterMarkets"
          /\ AcceptedBy(running[i])[2].call.fn = "approve"
    /\ Len(ledger.pending) = 2
    /\ ledger.pending[1] = ledger.pending[2]
    /\ ledger.pending[1].fn = "approve"

\* the calls of function fn accepted for invocation p
AcceptedCalls(p, fn) ==
    SelectSeq(p.calls, LAMBDA e : e.call.fn = fn /\ e.call.error # "rejected")

\* C23: one invocation of the supply tool never has two enterMarkets
\* transactions accepted, whenever the first one is mined, and has exactly one
\* accepted before its mint when its first membership read found the market
\* not entered.
C23_SupplyToolEntersOnce ==
    LET p == running[1]
    IN  p.op = "supplyTool" =>
            /\ Len(AcceptedCalls(p, "enterMarkets")) <= 1
            /\ (AcceptedCalls(p, "mint") # <<>> /\ AcceptedCalls(p, "getAssetsIn") # <<>>
                /\ AcceptedCalls(p, "getAssetsIn")[1].scope = "membership"
                /\ AcceptedCalls(p, "mint")[1].call.to \notin p.env.members[1])
                  => Len(AcceptedCalls(p, "enterMarkets")) = 1

\* the token the supply tool is asked to supply: the one agent.supplyToMarket
\* resolves the symbol to
SuppliedToken(p) == getCanonicalSymbolForCToken(network, trim(p.input.symbol))

\* C26: with check_balance, for every symbol the supply tool and the agent
\* accept, the balance the tool reads first is the wallet's balance of the
\* token supplied (balanceOf on the token of an ERC-20 market, the native
\* balance only for the native market), and when that balance is below the
\* amount the invocation fails and no transaction is issued.
C26_SupplyChecksBalanceOfSuppliedToken ==
    LET p == running[1]
        token == SuppliedToken(p)
        first == p.calls[1]
        decimals == IF SupplyIsNative(network, token) THEN 18 ELSE getTokenDecimals(network, token)
        held == NumDivPow10(NumberOf(p.env.toolBalance), decimals)
    IN  (p.op = "supplyTool" /\ p.input.check /\ p.calls # <<>>
         /\ CTokenAddressAt(network, token).defined)
            => /\ first.scope = "balance"
               /\ IF SupplyIsNative(network, token) THEN first.call.fn = "getBalance"
                  ELSE first.call.fn = "balanceOf"
                       /\ first.call.to = TokenAddressAt(network, token).value
               /\ (first.call.error # "rejected"
                   /\ NumGreater(NumberOfText(p.input.amount.text), held))
                     => /\ \A k \in 1..Len(p.calls) : p.calls[k].call.ev # "write"
                        /\ p.next.call.ev # "write"
                        /\ p.status \in {"ready", "done"}
                        /\ p.status = "done" => p.error = "ToolInsufficientBalance"

\* C24: in the borrow tool with check_liquidity, a liquidity read that returns
\* a liquidity of 0 or less or a health factor below 1.5 ends the invocation
\* with that error and without a borrow transaction; a liquidity read that is
\* rejected is passed over and the borrow transaction is issued next.
C24_BorrowLiquidityGate ==
    LET p == running[1]
        first == p.calls[1]
        liquidity == p.env.liquidity.liquidity
        healthFactor == p.env.liquidity.healthFactor
    IN  (p.op = "borrowTool" /\ p.input.check /\ p.calls # <<>>)
            => /\ first.call.fn = "getAccountLiquidity"
               /\ (first.call.error # "rejected"
                   /\ (NumGreater(NumZero, liquidity) \/ NumEq(liquidity, NumZero)
                       \/ NumGreater(Finite(15, 0 - 1, 1), healthFactor)))
                     => /\ Len(p.calls) = 1
                        /\ p.status \in {"ready", "done"}
                        /\ p.status = "done" =>
                              p.error = (IF NumGreater(NumZero, liquidity) \/ NumEq(liquidity, NumZero)
                                         THEN "ToolInsufficientLiquidity"
                                         ELSE "ToolHealthFactorTooLow")
               /\ (first.call.error = "rejected" /\ p.status \in {"waiting", "done"})
                     => /\ IssuedAfter(p, 1).ev = "write"
                        /\ IssuedAfter(p, 1).fn = "borrow"

\* the liquidity read of a borrow-tool invocation was rejected and its borrow
\* transaction has been accepted
C24_Witness ==
    /\ running[1].op = "borrowTool"
    /\ running[1].input.check
    /\ running[1].status = "done"
    /\ running[1].error = "none"
    /\ Len(running[1].calls) = 2
    /\ running[1].calls[1].call.fn = "getAccountLiquidity"
    /\ running[1].calls[1].call.error = "rejected"
    /\ running[1].calls[2].call.fn = "borrow"
    /\ running[1].calls[2].call.error # "rejected"

\* the symbols invocation p names
NamedSymbols(p) ==
    IF p.op = "enterMarketTool" THEN {p.input.symbols[k] : k \in 1..Len(p.input.symbols)}
    ELSE {p.input.symbol}

\* sym is the symbol of a market of the network in some letter casing, and the
\* agent's resolution finds its market
NamesMarket(sym) ==
    /\ \E j \in 1..Len(getCTokenAddresses(network)) :
          toLowerCase(getCTokenAddresses(network)[j].symbol) = toLowerCase(sym)
    /\ CTokenAddressAt(network, getCanonicalSymbolForCToken(network, sym)).defined

\* C27: the borrow, redeem-underlying, enter-market and approve (default
\* spender) tools never end with 'not available' when every symbol they are
\* given is a market symbol of the network in some letter casing that the
\* agent's resolution accepts.
C27_ToolsLocateMarketInAnyCasing ==
    LET p == running[1]
    IN  (/\ p.op \in {"borrowTool", "redeemUnderlyingTool", "enterMarketTool", "approveTool"}
         /\ p.op = "approveTool" => p.input.spender = ""
         /\ p.status = "done"
         /\ \A sym \in NamedSymbols(p) : NamesMarket(sym))
            => p.error \notin {"ToolTokenNotAvailable", "ToolMarketNotAvailable",
                               "ToolMarketsNotAvailable"}

\* the market of the k-th symbol of a request to enter markets
RequestedMarket(p, k) == ContractAt(network, CKey(toUpperCase(p.input.symbols[k])))

\* the membership read for the k-th symbol returned a list with its market
ConfirmedEntered(p, k) ==
    /\ \E j \in 1..Len(p.calls) :
          /\ p.calls[j].scope = "membership"
          /\ p.calls[j].index = k
          /\ p.calls[j].call.error # "rejected"
    /\ RequestedMarket(p, k).value \in p.env.members[k]

\* the transactions invocation p has issued, accepted or not, the one it
\* waits for included
IssuedWrites(p) ==
    SelectSeq(p.calls, LAMBDA e : e.call.ev = "write")
    \o (IF p.status = "waiting" /\ p.next.call.ev = "write" THEN <<p.next>> ELSE <<>>)

\* C30: the enter-market tool with check_membership issues no transaction when
\* a requested symbol has no market or when every requested market is
\* confirmed as entered; otherwise it issues exactly one transaction, an
\* enterMarkets of exactly the requested markets whose membership read did not
\* confirm them, a rejected read included.
C30_EnterMarketToolRequestsUnconfirmed ==
    LET p == running[1]
        K == 1..Len(p.input.symbols)
        writes == IssuedWrites(p)
        unconfirmed == {RequestedMarket(p, k).value : k \in {j \in K : ~ConfirmedEntered(p, j)}}
    IN  (p.op = "enterMarketTool" /\ p.input.check /\ ~isReadonly)
            => /\ Len(writes) <= 1
               /\ (\E k \in K : ~RequestedMarket(p, k).defined)
                     => /\ writes = <<>>
                        /\ p.status = "done" => p.error = "ToolMarketsNotAvailable"
               /\ (\A k \in K : RequestedMarket(p, k).defined)
                     => /\ writes # <<>> =>
                              /\ writes[1].call.fn = "enterMarkets"
                              /\ {writes[1].call.markets[j] :
                                      j \in 1..Len(writes[1].call.markets)} = unconfirmed
                        /\ p.status = "done" =>
                              /\ (\A k \in K : ConfirmedEntered(p, k))
                                    <=> writes = <<>>
                              /\ writes = <<>> => p.error = "none"

\* of two requested markets one was confirmed as entered and the membership
\* read of the other was rejected: the enterMarkets accepted names that one
C30_Witness ==
    LET p == running[1]
    IN  /\ p.op = "enterMarketTool"
        /\ p.input.check
        /\ p.status = "done"
        /\ p.error = "none"
        /\ Len(p.input.symbols) = 2
        /\ ConfirmedEntered(p, 1)
        /\ \E j \in 1..Len(p.calls) :
              /\ p.calls[j].scope = "membership"
              /\ p.calls[j].index = 2
              /\ p.calls[j].call.error = "rejected"
        /\ Len(AcceptedCalls(p, "enterMarkets")) = 1
        /\ AcceptedCalls(p, "enterMarkets")[1].call.markets = <<RequestedMarket(p, 2).value>>
        /\ RequestedMarket(p, 2).value # RequestedMarket(p, 1).value
====
